---- MODULE Spec2Model ----
(***************************************************************************)
(* cookie-injector: the refresh service (scheduler, executor, cookie       *)
(* store), the proxy addon and the files they share in the cookie          *)
(* directory.                                                              *)
(*                                                                         *)
(* Times are seconds since the epoch.  Every clock reading and every       *)
(* explicit cookie expiry of the model is a multiple of 4, so that         *)
(* lifetime * 0.75 is a whole number of seconds and is computed exactly.   *)
(***************************************************************************)
EXTENDS Integers, Sequences, FiniteSets, TLC

VARIABLES
    disk,       \* the cookie directory: path |-> file text, for the files that exist
    now,        \* time.time()
    pc,         \* per site task: where run_scheduled_refresh / perform_refresh stands
    attempt,    \* per site task: loop variable of perform_refresh
    wake,       \* per site task: deadline of the asyncio.sleep it is in
    permits,    \* asyncio.Semaphore._value
    waiters,    \* asyncio.Semaphore._waiters, FIFO
    result,     \* per site task: cookies returned by the login flow, or data being saved
    lastError,  \* per site task: exception of the last failed attempt of the call
    backoffs,   \* per site task: arguments of the back-off sleeps of the current call
    flow,       \* the mitmproxy flow the addon is handling
    ret,        \* the last direct call of a store/scheduler function and its return value
    sites,      \* config.sites
    scripts,    \* the domains whose login module refresh.scripts.<name> can be imported
    before,     \* per site task: {domain}.json as it was when perform_refresh was called
    buffer,     \* the text held by the file object f of the save in progress
    outbox      \* per site task: the alerting calls of the current loop iteration

vars == <<disk, now, pc, attempt, wake, permits, waiters, result, lastError,
          backoffs, flow, ret, sites, scripts, before, buffer, outbox>>

-----------------------------------------------------------------------------
(* Program constants *)

MAX_RETRIES == 3
BASE_BACKOFF_SECONDS == 5
MAX_CONCURRENT_BROWSERS == 3
SESSION_COOKIE_TTL_SECONDS == 30 * 24 * 3600
MIN_INTERVAL == 6 * 3600
MAX_INTERVAL == 24 * 3600
STARTUP_SKIP_THRESHOLD == 6 * 3600
\* proxy/cookie_store.py compares time_remaining with the literal 24 * 3600
EXPIRING_THRESHOLD == 24 * 3600
EXPIRING_THRESHOLD_SECONDS == 24 * 3600

-----------------------------------------------------------------------------
(* Bounds of the model *)

MaxCookies == 2     \* longest cookie list read from a pre-existing file
MaxTicks == 3       \* clock readings after the first one

Hour == 60 * 60
T0 == 500 * 24 * Hour         \* first clock reading
Grain == 6 * Hour             \* step of the clock of the running system

None == [none |-> TRUE]

-----------------------------------------------------------------------------
(* Cookies *)

\* c.get("expires", -1)
GetExpires(c) == IF "expires" \in DOMAIN c THEN c.expires ELSE -1

Min(S) == CHOOSE m \in S : \A x \in S : m <= x

\* [c for c in cookies if c.get("expires", -1) > now]
ValidCookies(cookies, t) == SelectSeq(cookies, LAMBDA c : GetExpires(c) > t)

RECURSIVE Join(_, _)
\* sep.join(strs)
Join(strs, sep) ==
    IF Len(strs) = 0 THEN ""
    ELSE IF Len(strs) = 1 THEN strs[1]
    ELSE strs[1] \o sep \o Join(Tail(strs), sep)

\* proxy/cookie_store.py format_cookies
format_cookies(cookies) ==
    Join([i \in 1..Len(cookies) |-> cookies[i].name \o "=" \o cookies[i].value], "; ")

\* get_cookie_status calling a jar with exactly 24h left "expiring"
get_cookie_status_inclusive(cookies, t) ==
    LET valid == ValidCookies(cookies, t)
    IN  IF Len(valid) = 0
        THEN [status |-> "expired", valid |-> <<>>]
        ELSE LET min_expiry == Min({valid[i].expires : i \in 1..Len(valid)})
                 time_remaining == min_expiry - t
             IN  IF time_remaining <= EXPIRING_THRESHOLD
                 THEN [status |-> "expiring", valid |-> valid]
                 ELSE [status |-> "ok", valid |-> valid]

\* proxy/cookie_store.py get_cookie_status, at time.time() = t
get_cookie_status(cookies, t) ==
    LET valid == ValidCookies(cookies, t)
    IN  IF Len(valid) = 0
        THEN [status |-> "expired", valid |-> <<>>]
        ELSE LET min_expiry == Min({valid[i].expires : i \in 1..Len(valid)})
                 time_remaining == min_expiry - t
             IN  IF time_remaining < EXPIRING_THRESHOLD
                 THEN [status |-> "expiring", valid |-> valid]
                 ELSE [status |-> "ok", valid |-> valid]

-----------------------------------------------------------------------------
(* JSON text.  A text is a sequence of tokens: the opening brace, one      *)
(* token per top-level member, the closing brace.  A file that is being    *)
(* written holds a prefix of the text.                                     *)

LBrace == [t |-> "{"]
RBrace == [t |-> "}"]
Junk == [t |-> "NOT JSON"]

IsMember(tok) == "t" \notin DOMAIN tok

\* json.dump(data, f, indent=2) for a dict with keys among cookies, metadata
json_dump(data) ==
    <<LBrace>>
    \o (IF "cookies" \in DOMAIN data THEN <<[cookies |-> data.cookies]>> ELSE <<>>)
    \o (IF "metadata" \in DOMAIN data THEN <<[metadata |-> data.metadata]>> ELSE <<>>)
    \o <<RBrace>>

RECURSIVE MergeMembers(_)
MergeMembers(toks) ==
    IF Len(toks) = 0 THEN <<>> ELSE toks[1] @@ MergeMembers(Tail(toks))

\* json.load(f): the dict, or JSONDecodeError
json_load(text) ==
    IF /\ Len(text) >= 2
       /\ text[1] = LBrace
       /\ text[Len(text)] = RBrace
       /\ \A i \in 2..(Len(text) - 1) : IsMember(text[i])
    THEN [ok |-> TRUE, data |-> MergeMembers(SubSeq(text, 2, Len(text) - 1))]
    ELSE [ok |-> FALSE]

-----------------------------------------------------------------------------
(* Paths of the cookie directory: the file name split at its suffixes.     *)

\* cookie_dir / f"{domain}.json"
cookie_file(domain) == <<domain, "json">>
\* cookie_dir / f"{domain}.json.tmp"
tmp_file(domain) == <<domain, "json", "tmp">>

\* path.exists()
exists(d, path) == path \in DOMAIN d

\* what is at path: the text of the file, or nothing
FileAt(d, path) ==
    IF exists(d, path) THEN [exists |-> TRUE, text |-> d[path]] ELSE [exists |-> FALSE]

\* the directory d with text written at path
WithFile(d, path, text) == [p \in DOMAIN d \cup {path} |-> IF p = path THEN text ELSE d[p]]
\* the directory d without path
WithoutFile(d, path) == [p \in DOMAIN d \ {path} |-> d[p]]

-----------------------------------------------------------------------------
(* Cookie store *)

\* load_cookies (refresh/cookie_store.py and proxy/cookie_store.py are the same code)
load_cookies(d, path) ==
    IF ~exists(d, path) THEN [err |-> "FileNotFoundError"]
    ELSE LET parsed == json_load(d[path])
         IN  IF ~parsed.ok THEN [err |-> "JSONDecodeError"]
             ELSE IF "cookies" \notin DOMAIN parsed.data THEN [err |-> "ValueError"]
             ELSE [err |-> "none",
                   cookies |-> parsed.data.cookies,
                   metadata |-> IF "metadata" \in DOMAIN parsed.data
                                THEN parsed.data.metadata ELSE <<>>]

\* c["expires"] = value
WithExpires(c, value) ==
    [k \in DOMAIN c \cup {"expires"} |-> IF k = "expires" THEN value ELSE c[k]]

RECURSIVE session_workaround_loop_in_place(_, _, _, _)
\* session_workaround_loop writing into the caller's cookie instead of a copy
session_workaround_loop_in_place(cookies, processed, i, t) ==
    IF i > Len(cookies) THEN [cookies |-> cookies, processed |-> processed]
    ELSE LET c == IF GetExpires(cookies[i]) = -1
                  THEN WithExpires(cookies[i], t + SESSION_COOKIE_TTL_SECONDS)
                  ELSE cookies[i]
         IN  session_workaround_loop_in_place([cookies EXCEPT ![i] = c],
                                              Append(processed, c), i + 1, t)

RECURSIVE session_workaround_loop(_, _, _, _)
\* the loop of apply_session_cookie_workaround from the i-th cookie on, with
\* now = t: cookies is the caller's list as the loop leaves it, processed
\* the list built.  cookie.copy() makes a new dict, so the assignment of
\* expires does not reach the caller's cookie.
session_workaround_loop(cookies, processed, i, t) ==
    IF i > Len(cookies) THEN [cookies |-> cookies, processed |-> processed]
    ELSE LET copy == cookies[i]
             c == IF GetExpires(copy) = -1
                  THEN WithExpires(copy, t + SESSION_COOKIE_TTL_SECONDS)
                  ELSE copy
         IN  session_workaround_loop(cookies, Append(processed, c), i + 1, t)

\* apply_session_cookie_workaround converting only a cookie that has an
\* expires field of -1
apply_session_cookie_workaround_explicit(cookies, t) ==
    [i \in 1..Len(cookies) |->
        IF "expires" \in DOMAIN cookies[i] /\ cookies[i].expires = -1
        THEN WithExpires(cookies[i], t + SESSION_COOKIE_TTL_SECONDS)
        ELSE cookies[i]]

\* apply_session_cookie_workaround, at int(time.time()) = t: the list returned
apply_session_cookie_workaround(cookies, t) ==
    session_workaround_loop(cookies, <<>>, 1, t).processed

\* SaveData writing the cookies in reverse order
SaveDataReversed(domain, cookies, refresh_source, t) ==
    LET fixed == apply_session_cookie_workaround(cookies, t)
        processed_cookies == [i \in 1..Len(fixed) |-> fixed[Len(fixed) + 1 - i]]
        session_cookie_count ==
            Cardinality({i \in 1..Len(cookies) : GetExpires(cookies[i]) = -1})
    IN  [cookies |-> processed_cookies,
         metadata |-> [refreshed_at |-> t,
                       refresh_source |-> refresh_source,
                       site_config |-> domain,
                       cookies_count |-> Len(processed_cookies),
                       session_cookie_workaround |-> session_cookie_count > 0,
                       session_cookies_converted |-> session_cookie_count]]

\* the dict save_cookies_with_metadata builds (next_refresh_at is None in perform_refresh)
SaveData(domain, cookies, refresh_source, t) ==
    LET processed_cookies == apply_session_cookie_workaround(cookies, t)
        session_cookie_count ==
            Cardinality({i \in 1..Len(cookies) : GetExpires(cookies[i]) = -1})
    IN  [cookies |-> processed_cookies,
         metadata |-> [refreshed_at |-> t,
                       refresh_source |-> refresh_source,
                       site_config |-> domain,
                       cookies_count |-> Len(processed_cookies),
                       session_cookie_workaround |-> session_cookie_count > 0,
                       session_cookies_converted |-> session_cookie_count]]

-----------------------------------------------------------------------------
(* Scheduler *)

\* calculate_next_refresh keeping no margin: the whole lifetime, clamped
calculate_next_refresh_full_lifetime(d, domain, t) ==
    IF ~exists(d, cookie_file(domain)) THEN 0
    ELSE LET loaded == load_cookies(d, cookie_file(domain))
         IN  IF loaded.err # "none" THEN 0
             ELSE LET valid == ValidCookies(loaded.cookies, t)
                  IN  IF Len(valid) = 0 THEN 0
                      ELSE LET min_expiry == Min({valid[i].expires : i \in 1..Len(valid)})
                               cookie_lifetime == min_expiry - t
                               raw_interval == cookie_lifetime
                               lower == IF MAX_INTERVAL < raw_interval
                                        THEN MAX_INTERVAL ELSE raw_interval
                           IN  IF MIN_INTERVAL > lower THEN MIN_INTERVAL ELSE lower

\* calculate_next_refresh without the lower clamp
calculate_next_refresh_unclamped(d, domain, t) ==
    IF ~exists(d, cookie_file(domain)) THEN 0
    ELSE LET loaded == load_cookies(d, cookie_file(domain))
         IN  IF loaded.err # "none" THEN 0
             ELSE LET valid == ValidCookies(loaded.cookies, t)
                  IN  IF Len(valid) = 0 THEN 0
                      ELSE LET min_expiry == Min({valid[i].expires : i \in 1..Len(valid)})
                               cookie_lifetime == min_expiry - t
                               raw_interval == (cookie_lifetime * 3) \div 4
                           IN  IF MAX_INTERVAL < raw_interval
                               THEN MAX_INTERVAL ELSE raw_interval

\* calculate_next_refresh counting every cookie that has an expiry as valid
calculate_next_refresh_any_cookie(d, domain, t) ==
    IF ~exists(d, cookie_file(domain)) THEN 0
    ELSE LET loaded == load_cookies(d, cookie_file(domain))
         IN  IF loaded.err # "none" THEN 0
             ELSE LET valid == SelectSeq(loaded.cookies, LAMBDA c : "expires" \in DOMAIN c)
                  IN  IF Len(valid) = 0 THEN 0
                      ELSE LET min_expiry == Min({valid[i].expires : i \in 1..Len(valid)})
                               cookie_lifetime == min_expiry - t
                               raw_interval == (cookie_lifetime * 3) \div 4
                               lower == IF MAX_INTERVAL < raw_interval
                                        THEN MAX_INTERVAL ELSE raw_interval
                           IN  IF MIN_INTERVAL > lower THEN MIN_INTERVAL ELSE lower

\* calculate_next_refresh deciding by the latest expiry of the valid cookies
calculate_next_refresh_latest(d, domain, t) ==
    IF ~exists(d, cookie_file(domain)) THEN 0
    ELSE LET loaded == load_cookies(d, cookie_file(domain))
         IN  IF loaded.err # "none" THEN 0
             ELSE LET valid == ValidCookies(loaded.cookies, t)
                  IN  IF Len(valid) = 0 THEN 0
                      ELSE LET max_expiry == CHOOSE m \in {valid[i].expires : i \in 1..Len(valid)} :
                                                \A i \in 1..Len(valid) : valid[i].expires <= m
                               cookie_lifetime == max_expiry - t
                               raw_interval == (cookie_lifetime * 3) \div 4
                               lower == IF MAX_INTERVAL < raw_interval
                                        THEN MAX_INTERVAL ELSE raw_interval
                           IN  IF MIN_INTERVAL > lower THEN MIN_INTERVAL ELSE lower

\* calculate_next_refresh, at time.time() = t
calculate_next_refresh(d, domain, t) ==
    IF ~exists(d, cookie_file(domain)) THEN 0
    ELSE LET loaded == load_cookies(d, cookie_file(domain))
         IN  IF loaded.err # "none" THEN 0
             ELSE LET valid == ValidCookies(loaded.cookies, t)
                  IN  IF Len(valid) = 0 THEN 0
                      ELSE LET min_expiry == Min({valid[i].expires : i \in 1..Len(valid)})
                               cookie_lifetime == min_expiry - t
                               raw_interval == (cookie_lifetime * 3) \div 4
                               lower == IF MAX_INTERVAL < raw_interval
                                        THEN MAX_INTERVAL ELSE raw_interval
                           IN  IF MIN_INTERVAL > lower THEN MIN_INTERVAL ELSE lower

-----------------------------------------------------------------------------
(* Proxy addon *)

PublicSuffixes == {<<"nl">>, <<"com">>, <<"uk">>, <<"co", "uk">>}

IsSuffixOf(suf, host) ==
    /\ Len(suf) <= Len(host)
    /\ SubSeq(host, Len(host) - Len(suf) + 1, Len(host)) = suf

\* tldextract.extract(host), host given as its labels: the longest public
\* suffix, and the label before it as the domain
tld_extract(host) ==
    LET sufs == {u \in PublicSuffixes : IsSuffixOf(u, host)}
        suffix == IF sufs = {} THEN <<>>
                  ELSE CHOOSE u \in sufs : \A v \in sufs : Len(v) <= Len(u)
        rest == SubSeq(host, 1, Len(host) - Len(suffix))
    IN  [domain |-> IF Len(rest) = 0 THEN "" ELSE rest[Len(rest)],
         suffix |-> Join(suffix, ".")]

\* get_canonical_domain: the registered domain, or ValueError
get_canonical_domain(host) ==
    LET extracted == tld_extract(host)
    IN  IF extracted.domain = "" \/ extracted.suffix = ""
        THEN [ok |-> FALSE]
        ELSE [ok |-> TRUE, domain |-> extracted.domain \o "." \o extracted.suffix]

\* the response CookieInjectorAddon._return_502 makes
return_502(reason, domain) ==
    [status_code |-> 502,
     body |-> [error |-> "cookie_injector_no_valid_cookies",
               domain |-> domain,
               message |-> "No valid authentication cookies available. Reason: " \o reason,
               status |-> reason],
     headers |-> ("Content-Type" :> "application/json")
                 @@ ("X-Cookie-Injector-Status" :> reason)]

\* headers[name] = value
SetHeader(headers, name, value) ==
    [h \in DOMAIN headers \cup {name} |-> IF h = name THEN value ELSE headers[h]]

NoFlow == [stage |-> "none"]

\* ProxyRequest letting the request through when the jar file is missing
ProxyRequestLenient(host, headers) ==
    /\ flow.stage \in {"none", "requested", "responded"}
    /\ LET canon == get_canonical_domain(host)
           base == [stage |-> "requested", host |-> host, sent |-> headers,
                    headers |-> headers, response |-> None, domain |-> ""]
       IN  IF ~canon.ok
           THEN flow' = base
           ELSE IF ~exists(disk, cookie_file(canon.domain))
           THEN flow' = [base EXCEPT !.domain = canon.domain]
           ELSE flow' = [base EXCEPT !.domain = canon.domain, !.stage = "exists"]
    /\ UNCHANGED <<disk, now, pc, attempt, wake, permits, waiters, result, lastError,
                   backoffs, ret, sites, scripts, before, buffer, outbox>>

\* CookieInjectorAddon.request, up to and including cookie_file.exists()
ProxyRequest(host, headers) ==
    /\ flow.stage \in {"none", "requested", "responded"}
    /\ LET canon == get_canonical_domain(host)
           base == [stage |-> "requested", host |-> host, sent |-> headers,
                    headers |-> headers, response |-> None, domain |-> ""]
       IN  IF ~canon.ok
           THEN flow' = base
           ELSE IF ~exists(disk, cookie_file(canon.domain))
           THEN flow' = [base EXCEPT !.domain = canon.domain,
                                     !.response = return_502("missing", canon.domain)]
           ELSE flow' = [base EXCEPT !.domain = canon.domain, !.stage = "exists"]
    /\ UNCHANGED <<disk, now, pc, attempt, wake, permits, waiters, result, lastError,
                   backoffs, ret, sites, scripts, before, buffer, outbox>>

\* ProxyLoad injecting every cookie of the jar
ProxyLoadWholeJar ==
    /\ flow.stage = "exists"
    /\ LET loaded == load_cookies(disk, cookie_file(flow.domain))
       IN  IF loaded.err # "none"
           THEN flow' = [flow EXCEPT !.stage = "requested",
                                     !.response = return_502("error", flow.domain)]
           ELSE LET st == get_cookie_status(loaded.cookies, now)
                IN  IF st.status = "expired"
                    THEN flow' = [flow EXCEPT !.stage = "requested",
                                              !.response = return_502("expired", flow.domain)]
                    ELSE flow' = [flow EXCEPT
                            !.stage = "requested",
                            !.headers = SetHeader(
                                SetHeader(flow.headers, "Cookie",
                                          format_cookies(loaded.cookies)),
                                "X-Cookie-Injector-Status", st.status)]
    /\ UNCHANGED <<disk, now, pc, attempt, wake, permits, waiters, result, lastError,
                   backoffs, ret, sites, scripts, before, buffer, outbox>>

\* CookieInjectorAddon.request, from load_cookies to the end
ProxyLoad ==
    /\ flow.stage = "exists"
    /\ LET loaded == load_cookies(disk, cookie_file(flow.domain))
       IN  IF loaded.err # "none"
           THEN flow' = [flow EXCEPT !.stage = "requested",
                                     !.response = return_502("error", flow.domain)]
           ELSE LET st == get_cookie_status(loaded.cookies, now)
                IN  IF st.status = "expired"
                    THEN flow' = [flow EXCEPT !.stage = "requested",
                                              !.response = return_502("expired", flow.domain)]
                    ELSE flow' = [flow EXCEPT
                            !.stage = "requested",
                            !.headers = SetHeader(
                                SetHeader(flow.headers, "Cookie", format_cookies(st.valid)),
                                "X-Cookie-Injector-Status", st.status)]
    /\ UNCHANGED <<disk, now, pc, attempt, wake, permits, waiters, result, lastError,
                   backoffs, ret, sites, scripts, before, buffer, outbox>>

\* The forwarded request is answered upstream.  The addon defines no
\* response hook, so the response reaches the client as the upstream sent it.
UpstreamResponse ==
    /\ flow.stage = "requested"
    /\ flow.response = None
    /\ flow' = [flow EXCEPT !.stage = "responded",
                            !.response = [status_code |-> 200, body |-> [text |-> "OK"],
                                          headers |-> <<>>]]
    /\ UNCHANGED <<disk, now, pc, attempt, wake, permits, waiters, result, lastError,
                   backoffs, ret, sites, scripts, before, buffer, outbox>>

-----------------------------------------------------------------------------
(* Refresh service: one task per configured site on one event loop.        *)
(* A task runs without interruption between two awaits; the steps of       *)
(* save_cookies_with_metadata contain no await, so no other task runs      *)
(* while one is saving, but the proxy reads the directory at any moment.   *)

Sites == DOMAIN sites
DomainOf(s) == sites[s].domain

SavePCs == {"save_open", "save_write", "save_flush", "save_fsync", "save_close",
            "save_rename"}
Saving == \E s \in Sites : pc[s] \in SavePCs

\* FailAttempt with the exponent off by one: 5 * 2^attempt
FailAttemptDoubled(s, k, exc, f) ==
    /\ lastError' = [lastError EXCEPT ![s] = exc]
    /\ IF k < MAX_RETRIES
       THEN LET backoff == BASE_BACKOFF_SECONDS * (2 ^ k)
            IN  /\ pc' = [f EXCEPT ![s] = "backoff"]
                /\ wake' = [wake EXCEPT ![s] = now + backoff]
                /\ backoffs' = [backoffs EXCEPT ![s] = Append(@, backoff)]
       ELSE /\ pc' = [f EXCEPT ![s] = "alert"]
            /\ UNCHANGED <<wake, backoffs>>

\* perform_refresh, the except clause of attempt k; f is pc as the failed
\* attempt leaves it
FailAttempt(s, k, exc, f) ==
    /\ lastError' = [lastError EXCEPT ![s] = exc]
    /\ IF k < MAX_RETRIES
       THEN LET backoff == BASE_BACKOFF_SECONDS * (2 ^ (k - 1))
            IN  /\ pc' = [f EXCEPT ![s] = "backoff"]
                /\ wake' = [wake EXCEPT ![s] = now + backoff]
                /\ backoffs' = [backoffs EXCEPT ![s] = Append(@, backoff)]
       ELSE \* RuntimeError leaves perform_refresh and is caught by the loop
            /\ pc' = [f EXCEPT ![s] = "alert"]
            /\ UNCHANGED <<wake, backoffs>>

\* asyncio.Semaphore.release: the permit goes to the first waiter, if any
Release(s) ==
    IF Len(waiters) = 0
    THEN /\ permits' = permits + 1
         /\ UNCHANGED waiters
    ELSE /\ waiters' = Tail(waiters)
         /\ UNCHANGED permits

\* pc after Release: the first waiter holds the permit and goes on
Granted(f) ==
    IF Len(waiters) = 0 THEN f ELSE [f EXCEPT ![Head(waiters)] = "launch"]

\* BeginAttempt without the semaphore: the browser is launched at once
BeginAttemptUngated(s, k) ==
    /\ attempt' = [attempt EXCEPT ![s] = k]
    /\ IF DomainOf(s) \notin scripts
       THEN /\ FailAttempt(s, k, "ModuleNotFoundError", pc)
            /\ UNCHANGED <<permits, waiters>>
       ELSE /\ permits' = permits - 1
            /\ pc' = [pc EXCEPT ![s] = "launch"]
            /\ wake' = [wake EXCEPT ![s] = 0]
            /\ UNCHANGED <<waiters, lastError, backoffs>>

\* perform_refresh, attempt k up to its first await: the import of the login
\* module and the acquisition of the semaphore in _run_login_flow
BeginAttempt(s, k) ==
    /\ attempt' = [attempt EXCEPT ![s] = k]
    /\ IF DomainOf(s) \notin scripts
       THEN /\ FailAttempt(s, k, "ModuleNotFoundError", pc)
            /\ UNCHANGED <<permits, waiters>>
       ELSE IF permits > 0 /\ Len(waiters) = 0
       THEN /\ permits' = permits - 1
            /\ pc' = [pc EXCEPT ![s] = "launch"]
            /\ wake' = [wake EXCEPT ![s] = 0]
            /\ UNCHANGED <<waiters, lastError, backoffs>>
       ELSE /\ waiters' = Append(waiters, s)
            /\ pc' = [pc EXCEPT ![s] = "waiting"]
            /\ wake' = [wake EXCEPT ![s] = 0]
            /\ UNCHANGED <<permits, lastError, backoffs>>

\* Start sleeping only when the initial interval exceeds the threshold
StartStrict(s) ==
    /\ pc[s] = "start"
    /\ ~Saving
    /\ LET initial_interval == calculate_next_refresh(disk, DomainOf(s), now)
       IN  IF initial_interval > STARTUP_SKIP_THRESHOLD
           THEN /\ pc' = [pc EXCEPT ![s] = "startup_sleep"]
                /\ wake' = [wake EXCEPT ![s] = now + initial_interval]
                /\ UNCHANGED <<attempt, permits, waiters, lastError, backoffs, before>>
           ELSE /\ before' = [before EXCEPT ![s] = FileAt(disk, cookie_file(DomainOf(s)))]
                /\ BeginAttempt(s, 1)
    /\ UNCHANGED <<disk, now, result, flow, ret, sites, scripts, buffer, outbox>>

\* run_scheduled_refresh up to its first await
Start(s) ==
    /\ pc[s] = "start"
    /\ ~Saving
    /\ LET initial_interval == calculate_next_refresh(disk, DomainOf(s), now)
       IN  IF initial_interval >= STARTUP_SKIP_THRESHOLD
           THEN /\ pc' = [pc EXCEPT ![s] = "startup_sleep"]
                /\ wake' = [wake EXCEPT ![s] = now + initial_interval]
                /\ UNCHANGED <<attempt, permits, waiters, lastError, backoffs, before>>
           ELSE /\ before' = [before EXCEPT ![s] = FileAt(disk, cookie_file(DomainOf(s)))]
                /\ BeginAttempt(s, 1)
    /\ UNCHANGED <<disk, now, result, flow, ret, sites, scripts, buffer, outbox>>

\* asyncio.sleep returns in the loop: the next perform_refresh begins
SleepWake(s) ==
    /\ pc[s] \in {"startup_sleep", "sleep"}
    /\ ~Saving
    /\ now >= wake[s]
    /\ before' = [before EXCEPT ![s] = FileAt(disk, cookie_file(DomainOf(s)))]
    /\ outbox' = [outbox EXCEPT ![s] = <<>>]
    /\ BeginAttempt(s, 1)
    /\ UNCHANGED <<disk, now, result, flow, ret, sites, scripts, buffer>>

\* asyncio.sleep(backoff) returns: the next attempt begins
BackoffWake(s) ==
    /\ pc[s] = "backoff"
    /\ ~Saving
    /\ now >= wake[s]
    /\ BeginAttempt(s, attempt[s] + 1)
    /\ UNCHANGED <<disk, now, result, flow, ret, sites, scripts, before, buffer, outbox>>

\* _run_login_flow: async_playwright() and chromium.launch succeed
LaunchOk(s) ==
    /\ pc[s] = "launch"
    /\ ~Saving
    /\ pc' = [pc EXCEPT ![s] = "login"]
    /\ UNCHANGED <<disk, now, attempt, wake, permits, waiters, result, lastError,
                   backoffs, flow, ret, sites, scripts, before, buffer, outbox>>

\* LaunchFail keeping the permit of the failed attempt
LaunchFailLeaky(s) ==
    /\ pc[s] = "launch"
    /\ ~Saving
    /\ UNCHANGED <<permits, waiters>>
    /\ FailAttempt(s, attempt[s], "BrowserError", pc)
    /\ UNCHANGED <<disk, now, attempt, result, flow, ret, sites, scripts, before, buffer,
                   outbox>>

\* _run_login_flow: the browser cannot be launched; the permit is released
LaunchFail(s) ==
    /\ pc[s] = "launch"
    /\ ~Saving
    /\ Release(s)
    /\ FailAttempt(s, attempt[s], "BrowserError", Granted(pc))
    /\ UNCHANGED <<disk, now, attempt, result, flow, ret, sites, scripts, before, buffer,
                   outbox>>

\* LoginOk keeping the permit while the cookies are saved
LoginOkHolding(s, cookies) ==
    /\ pc[s] = "login"
    /\ ~Saving
    /\ UNCHANGED <<permits, waiters>>
    /\ result' = [result EXCEPT ![s] = cookies]
    /\ pc' = [pc EXCEPT ![s] = "save_open"]
    /\ UNCHANGED <<disk, now, attempt, wake, lastError, backoffs, flow, ret, sites,
                   scripts, before, buffer, outbox>>

\* _run_login_flow: the login routine returns cookies, the browser is closed
\* and the permit released; perform_refresh goes on into the save
LoginOk(s, cookies) ==
    /\ pc[s] = "login"
    /\ ~Saving
    /\ Release(s)
    /\ result' = [result EXCEPT ![s] = cookies]
    /\ pc' = Granted([pc EXCEPT ![s] = "save_open"])
    /\ UNCHANGED <<disk, now, attempt, wake, lastError, backoffs, flow, ret, sites,
                   scripts, before, buffer, outbox>>

\* LoginFail leaving the browser open and the permit taken
LoginFailLeaky(s, exc) ==
    /\ pc[s] = "login"
    /\ ~Saving
    /\ UNCHANGED <<permits, waiters>>
    /\ FailAttempt(s, attempt[s], exc, pc)
    /\ UNCHANGED <<disk, now, attempt, result, flow, ret, sites, scripts, before, buffer,
                   outbox>>

\* _run_login_flow: new_context, new_page or login raises (or the browser
\* cannot be closed), the browser is closed and the permit released
LoginFail(s, exc) ==
    /\ pc[s] = "login"
    /\ ~Saving
    /\ Release(s)
    /\ FailAttempt(s, attempt[s], exc, Granted(pc))
    /\ UNCHANGED <<disk, now, attempt, result, flow, ret, sites, scripts, before, buffer,
                   outbox>>

\* SaveOpen opening {domain}.json itself for writing
SaveOpenInPlace(s) ==
    /\ pc[s] = "save_open"
    /\ buffer' = json_dump(SaveData(DomainOf(s), result[s], "scheduled", now))
    /\ disk' = WithFile(disk, cookie_file(DomainOf(s)), <<>>)
    /\ pc' = [pc EXCEPT ![s] = "save_write"]
    /\ UNCHANGED <<now, attempt, wake, permits, waiters, result, lastError, backoffs,
                   flow, ret, sites, scripts, before, outbox>>

\* save_cookies_with_metadata: the data is built and tmp_file.open("w")
\* creates or truncates the temporary file
SaveOpen(s) ==
    /\ pc[s] = "save_open"
    /\ buffer' = json_dump(SaveData(DomainOf(s), result[s], "scheduled", now))
    /\ disk' = WithFile(disk, tmp_file(DomainOf(s)), <<>>)
    /\ pc' = [pc EXCEPT ![s] = "save_write"]
    /\ UNCHANGED <<now, attempt, wake, permits, waiters, result, lastError, backoffs, flow,
                   ret, sites, scripts, before, outbox>>

\* SaveWrite with the text going to {domain}.json and to the temporary file
SaveWriteInPlace(s) ==
    /\ pc[s] = "save_write"
    /\ \E n \in 0..Len(buffer) :
          disk' = WithFile(WithFile(disk, tmp_file(DomainOf(s)), SubSeq(buffer, 1, n)),
                           cookie_file(DomainOf(s)), SubSeq(buffer, 1, n))
    /\ pc' = [pc EXCEPT ![s] = "save_flush"]
    /\ UNCHANGED <<now, attempt, wake, permits, waiters, result, lastError, backoffs,
                   flow, ret, sites, scripts, before, buffer, outbox>>

\* json.dump(data, f): the text goes to the file object's buffer, a prefix
\* of it may reach the file
SaveWrite(s) ==
    /\ pc[s] = "save_write"
    /\ \E n \in 0..Len(buffer) :
          disk' = WithFile(disk, tmp_file(DomainOf(s)), SubSeq(buffer, 1, n))
    /\ pc' = [pc EXCEPT ![s] = "save_flush"]
    /\ UNCHANGED <<now, attempt, wake, permits, waiters, result, lastError, backoffs,
                   flow, ret, sites, scripts, before, buffer, outbox>>

\* f.flush(): the whole text is in the file
SaveFlush(s) ==
    /\ pc[s] = "save_flush"
    /\ disk' = WithFile(disk, tmp_file(DomainOf(s)), buffer)
    /\ pc' = [pc EXCEPT ![s] = "save_fsync"]
    /\ UNCHANGED <<now, attempt, wake, permits, waiters, result, lastError, backoffs,
                   flow, ret, sites, scripts, before, buffer, outbox>>

\* os.fsync(f.fileno())
SaveFsync(s) ==
    /\ pc[s] = "save_fsync"
    /\ pc' = [pc EXCEPT ![s] = "save_close"]
    /\ UNCHANGED <<disk, now, attempt, wake, permits, waiters, result, lastError,
                   backoffs, flow, ret, sites, scripts, before, buffer, outbox>>

\* the with block closes the file
SaveClose(s) ==
    /\ pc[s] = "save_close"
    /\ pc' = [pc EXCEPT ![s] = "save_rename"]
    /\ buffer' = None
    /\ UNCHANGED <<disk, now, attempt, wake, permits, waiters, result, lastError,
                   backoffs, flow, ret, sites, scripts, before, outbox>>

\* SaveRename refusing to replace a jar that has valid cookies by one that
\* has none: the temporary file is dropped and the jar kept
SaveRenameKeepValid(s) ==
    /\ pc[s] = "save_rename"
    /\ LET old == load_cookies(disk, cookie_file(DomainOf(s)))
           new == load_cookies(disk, tmp_file(DomainOf(s)))
       IN  IF /\ exists(disk, cookie_file(DomainOf(s)))
              /\ old.err = "none" /\ Len(ValidCookies(old.cookies, now)) > 0
              /\ Len(ValidCookies(new.cookies, now)) = 0
           THEN disk' = WithoutFile(disk, tmp_file(DomainOf(s)))
           ELSE disk' = WithFile(WithoutFile(disk, tmp_file(DomainOf(s))),
                                 cookie_file(DomainOf(s)), disk[tmp_file(DomainOf(s))])
    /\ pc' = [pc EXCEPT ![s] = "ping_ok"]
    /\ UNCHANGED <<now, attempt, wake, permits, waiters, result, lastError, backoffs, flow,
                   ret, sites, scripts, before, buffer, outbox>>

\* SaveRename copying the temporary file over the jar and leaving it there
SaveRenameCopy(s) ==
    /\ pc[s] = "save_rename"
    /\ disk' = WithFile(disk, cookie_file(DomainOf(s)), disk[tmp_file(DomainOf(s))])
    /\ pc' = [pc EXCEPT ![s] = "ping_ok"]
    /\ UNCHANGED <<now, attempt, wake, permits, waiters, result, lastError, backoffs, flow,
                   ret, sites, scripts, before, buffer, outbox>>

\* tmp_file.rename(cookie_file); perform_refresh returns and the loop
\* awaits ping_healthcheck(success=True)
SaveRename(s) ==
    /\ pc[s] = "save_rename"
    /\ disk' = WithFile(WithoutFile(disk, tmp_file(DomainOf(s))),
                        cookie_file(DomainOf(s)), disk[tmp_file(DomainOf(s))])
    /\ pc' = [pc EXCEPT ![s] = "ping_ok"]
    /\ UNCHANGED <<now, attempt, wake, permits, waiters, result, lastError, backoffs, flow,
                   ret, sites, scripts, before, buffer, outbox>>

\* the step save_cookies_with_metadata is at raises OSError: the with block
\* closes the file if it is open, and the attempt has failed.  A failing
\* json.dump leaves a proper prefix of the text in the temporary file.
SaveFail(s) ==
    /\ pc[s] \in SavePCs
    /\ IF pc[s] = "save_write"
       THEN \E n \in 0..(Len(buffer) - 1) :
               disk' = WithFile(disk, tmp_file(DomainOf(s)), SubSeq(buffer, 1, n))
       ELSE UNCHANGED disk
    /\ buffer' = None
    /\ FailAttempt(s, attempt[s], "OSError", pc)
    /\ UNCHANGED <<now, attempt, permits, waiters, result, flow, ret, sites, scripts,
                   before, outbox>>

\* run_scheduled_refresh: interval for the next sleep
NextInterval(s) ==
    LET interval == calculate_next_refresh(disk, DomainOf(s), now)
    IN  IF interval = 0 THEN MIN_INTERVAL ELSE interval

\* str(exc) of the RuntimeError perform_refresh raises after its last
\* attempt: the text, as the parts the f-string is made of
AllAttemptsFailed(domain) ==
    <<"All ", ToString(MAX_RETRIES), " refresh attempts failed for ", domain>>

\* what becomes of an alerting call: no URL is configured and nothing is
\* sent, the HTTP request succeeds, or it fails and the failure is logged
AlertOutcomes == {"disabled", "sent", "failed"}

\* send_ntfy_alert(domain, error) as called at time t
NtfyCall(domain, error, outcome, t) ==
    [call |-> "send_ntfy_alert", domain |-> domain, error |-> error,
     outcome |-> outcome, at |-> t]

\* ping_healthcheck(domain, success) as called at time t
PingCall(domain, success, outcome, t) ==
    [call |-> "ping_healthcheck", domain |-> domain, success |-> success,
     outcome |-> outcome, at |-> t]

\* the loop sleeping through the interval as it is computed, 0 included
EndOfIterationNoFloor(s) ==
    /\ pc' = [pc EXCEPT ![s] = "sleep"]
    /\ wake' = [wake EXCEPT ![s] = now + calculate_next_refresh(disk, DomainOf(s), now)]
    /\ backoffs' = [backoffs EXCEPT ![s] = <<>>]
    /\ lastError' = [lastError EXCEPT ![s] = "none"]
    /\ attempt' = [attempt EXCEPT ![s] = 0]
    /\ result' = [result EXCEPT ![s] = <<>>]
    /\ before' = [before EXCEPT ![s] = None]

\* run_scheduled_refresh after the try statement: the interval is computed
\* and the loop sleeps; the locals of the finished perform_refresh are gone
EndOfIteration(s) ==
    /\ pc' = [pc EXCEPT ![s] = "sleep"]
    /\ wake' = [wake EXCEPT ![s] = now + NextInterval(s)]
    /\ backoffs' = [backoffs EXCEPT ![s] = <<>>]
    /\ lastError' = [lastError EXCEPT ![s] = "none"]
    /\ attempt' = [attempt EXCEPT ![s] = 0]
    /\ result' = [result EXCEPT ![s] = <<>>]
    /\ before' = [before EXCEPT ![s] = None]

\* ping_healthcheck(success=True) returns; the loop computes the interval and sleeps
PingOk(s, outcome) ==
    /\ pc[s] = "ping_ok"
    /\ ~Saving
    /\ outbox' = [outbox EXCEPT ![s] = Append(@, PingCall(DomainOf(s), TRUE, outcome, now))]
    /\ EndOfIteration(s)
    /\ UNCHANGED <<disk, now, permits, waiters, flow, ret, sites,
                   scripts, buffer>>

\* the except clause of the loop calling send_ntfy_alert twice
AlertTwice(s, outcome) ==
    /\ pc[s] = "alert"
    /\ ~Saving
    /\ LET call == NtfyCall(DomainOf(s), AllAttemptsFailed(DomainOf(s)), outcome, now)
       IN  outbox' = [outbox EXCEPT ![s] = Append(Append(@, call), call)]
    /\ pc' = [pc EXCEPT ![s] = "ping_fail"]
    /\ UNCHANGED <<disk, now, attempt, wake, permits, waiters, result, lastError,
                   backoffs, flow, ret, sites, scripts, before, buffer>>

\* send_ntfy_alert letting a failed request raise into the loop, which ends
AlertPropagating(s, outcome) ==
    /\ pc[s] = "alert"
    /\ ~Saving
    /\ outbox' = [outbox EXCEPT ![s] =
                     Append(@, NtfyCall(DomainOf(s), AllAttemptsFailed(DomainOf(s)),
                                        outcome, now))]
    /\ pc' = [pc EXCEPT ![s] = IF outcome = "failed" THEN "crashed" ELSE "ping_fail"]
    /\ UNCHANGED <<disk, now, attempt, wake, permits, waiters, result, lastError,
                   backoffs, flow, ret, sites, scripts, before, buffer>>

\* the except clause of the loop: send_ntfy_alert(site.domain, str(exc))
\* returns, whatever became of the notification
Alert(s, outcome) ==
    /\ pc[s] = "alert"
    /\ ~Saving
    /\ outbox' = [outbox EXCEPT ![s] =
                     Append(@, NtfyCall(DomainOf(s), AllAttemptsFailed(DomainOf(s)),
                                        outcome, now))]
    /\ pc' = [pc EXCEPT ![s] = "ping_fail"]
    /\ UNCHANGED <<disk, now, attempt, wake, permits, waiters, result, lastError,
                   backoffs, flow, ret, sites, scripts, before, buffer>>

\* ping_healthcheck(success=False) returns; the loop computes the interval and sleeps
PingFail(s, outcome) ==
    /\ pc[s] = "ping_fail"
    /\ ~Saving
    /\ outbox' = [outbox EXCEPT ![s] = Append(@, PingCall(DomainOf(s), FALSE, outcome, now))]
    /\ EndOfIteration(s)
    /\ UNCHANGED <<disk, now, permits, waiters, flow, ret, sites,
                   scripts, buffer>>

\* time passes
Tick ==
    /\ now < T0 + MaxTicks * Grain
    /\ now' = now + Grain
    /\ UNCHANGED <<disk, pc, attempt, wake, permits, waiters, result, lastError,
                   backoffs, flow, ret, sites, scripts, before, buffer, outbox>>

-----------------------------------------------------------------------------
(* Health aggregator (health/server.py) *)

\* cookie_dir.glob("*.json") matching every name with .json in it
glob_json_loose(d) == {p \in DOMAIN d : \E i \in 2..Len(p) : p[i] = "json"}

\* cookie_dir.glob("*.json"): the names whose last suffix is .json
glob_json(d) == {p \in DOMAIN d : Len(p) >= 2 /\ p[Len(p)] = "json"}

\* cookie_file.stem: the name without its last suffix
stem(p) == Join(SubSeq(p, 1, Len(p) - 1), ".")

\* dict.get(key, default)
DictGet(dict, key, default) == IF key \in DOMAIN dict THEN dict[key] ELSE default

\* get_site_status(cookie_file), at time.time() = t
get_site_status(d, path, t) ==
    LET parsed == json_load(d[path])
    IN  IF ~parsed.ok
        THEN [status |-> "error", error |-> "JSONDecodeError"]
        ELSE LET cookies == DictGet(parsed.data, "cookies", <<>>)
                 metadata == DictGet(parsed.data, "metadata", <<>>)
                 valid == ValidCookies(cookies, t)
             IN  IF Len(valid) = 0
                 THEN [status |-> "expired",
                       cookies_count |-> 0,
                       cookies_valid_until |-> None,
                       last_refresh |-> DictGet(metadata, "refreshed_at", None),
                       next_refresh |-> DictGet(metadata, "next_refresh", None),
                       session_cookie_workaround |->
                           DictGet(metadata, "session_cookie_workaround", FALSE)]
                 ELSE LET min_expiry == Min({valid[i].expires : i \in 1..Len(valid)})
                          time_remaining == min_expiry - t
                      IN  [status |-> IF time_remaining < EXPIRING_THRESHOLD_SECONDS
                                      THEN "expiring" ELSE "ok",
                           cookies_count |-> Len(valid),
                           cookies_valid_until |-> min_expiry,
                           last_refresh |-> DictGet(metadata, "refreshed_at", None),
                           next_refresh |-> DictGet(metadata, "next_refresh", None),
                           session_cookie_workaround |->
                               DictGet(metadata, "session_cookie_workaround", FALSE)]

\* get_health_status calling the whole "ok" as soon as one jar is ok
get_health_status_any_ok(d, t) ==
    LET files == glob_json(d)
        site_map == [domain \in {stem(p) : p \in files} |->
                     get_site_status(d, CHOOSE p \in files : stem(p) = domain, t)]
        statuses == {site_map[domain].status : domain \in DOMAIN site_map}
        overall == IF DOMAIN site_map = {} \/ \A st \in statuses : st = "error"
                   THEN "error"
                   ELSE IF \E st \in statuses : st = "ok" THEN "ok"
                   ELSE "degraded"
    IN  [status |-> overall, timestamp |-> t, sites |-> site_map]

\* get_health_status(cookie_dir), at time t
get_health_status(d, t) ==
    LET files == glob_json(d)
        site_map == [domain \in {stem(p) : p \in files} |->
                     get_site_status(d, CHOOSE p \in files : stem(p) = domain, t)]
        statuses == {site_map[domain].status : domain \in DOMAIN site_map}
        overall == IF DOMAIN site_map = {} \/ \A st \in statuses : st = "error"
                   THEN "error"
                   ELSE IF \A st \in statuses : st = "ok" THEN "ok"
                   ELSE "degraded"
    IN  [status |-> overall, timestamp |-> t, sites |-> site_map]

\* GET /health: the response body
HealthGet ==
    /\ ret' = [fn |-> "get_health_status", at |-> now,
               value |-> get_health_status(disk, now)]
    /\ UNCHANGED <<disk, now, pc, attempt, wake, permits, waiters, result, lastError,
                   backoffs, flow, sites, scripts, before, buffer, outbox>>

\* get_site_status(cookie_dir / f"{domain}.json") called on an existing file
CallSiteStatus(domain) ==
    /\ exists(disk, cookie_file(domain))
    /\ ret' = [fn |-> "get_site_status", domain |-> domain, at |-> now,
               value |-> get_site_status(disk, cookie_file(domain), now)]
    /\ UNCHANGED <<disk, now, pc, attempt, wake, permits, waiters, result, lastError,
                   backoffs, flow, sites, scripts, before, buffer, outbox>>

-----------------------------------------------------------------------------

(* Direct calls of the pure functions *)

\* get_cookie_status(cookies) called at the current time
CallStatus(cookies) ==
    /\ ret' = [fn |-> "get_cookie_status", cookies |-> cookies, at |-> now,
               value |-> get_cookie_status(cookies, now)]
    /\ UNCHANGED <<disk, now, pc, attempt, wake, permits, waiters, result, lastError,
                   backoffs, flow, sites, scripts, before, buffer, outbox>>

\* apply_session_cookie_workaround(cookies) called at the current time: the
\* value returned and the caller's list after the call
CallWorkaround(cookies) ==
    /\ LET run == session_workaround_loop(cookies, <<>>, 1, now)
       IN  ret' = [fn |-> "apply_session_cookie_workaround", cookies |-> cookies,
                   after |-> run.cookies, at |-> now, value |-> run.processed]
    /\ UNCHANGED <<disk, now, pc, attempt, wake, permits, waiters, result, lastError,
                   backoffs, flow, sites, scripts, before, buffer, outbox>>

\* calculate_next_refresh(domain, cookie_dir) called at the current time
CallNextRefresh(domain) ==
    /\ ret' = [fn |-> "calculate_next_refresh", domain |-> domain, at |-> now,
               value |-> calculate_next_refresh(disk, domain, now)]
    /\ UNCHANGED <<disk, now, pc, attempt, wake, permits, waiters, result, lastError,
                   backoffs, flow, sites, scripts, before, buffer, outbox>>

-----------------------------------------------------------------------------
(* The running system with one configured site: its refresh loop, a       *)
(* cookie directory left by earlier runs, and the proxy reading it.        *)

Site(domain) == [domain |-> domain]

SystemSites == <<Site("nrc.nl")>>

\* what a login routine may return
LoginCookies ==
    { <<[name |-> "sid", value |-> "abc", expires |-> -1]>>,
      <<[name |-> "sid", value |-> "abc", expires |-> T0 + 12 * Hour],
        [name |-> "pref", value |-> "nl", expires |-> T0 + 48 * Hour]>> }

\* what a login routine may raise: a navigation timeout, missing credentials
LoginErrors == {"TimeoutError", "ValueError"}

\* a jar file as an earlier run of the service saved it at time t
SavedFile(domain, cookies, t) == json_dump(SaveData(domain, cookies, "scheduled", t))

EmptyDir == <<>>

\* cookie directories the service may start with
InitialDirs ==
    { EmptyDir,
      WithFile(EmptyDir, cookie_file("nrc.nl"),
               SavedFile("nrc.nl",
                         <<[name |-> "sid", value |-> "old", expires |-> T0 + 8 * Hour]>>,
                         T0 - 16 * Hour)) }

\* hosts of the requests the proxy sees while the service runs
SystemHosts == {<<"www", "nrc", "nl">>, <<"localhost">>}

\* Cookie headers a client may send
ClientHeaders == {<<>>, "Cookie" :> "own=1"}

\* main(): one task per site and the semaphore, before any task has run
BootWith(siteList, modules, dir, t) ==
    /\ sites = siteList
    /\ scripts = modules
    /\ disk = dir
    /\ now = t
    /\ pc = [s \in DOMAIN siteList |-> "start"]
    /\ attempt = [s \in DOMAIN siteList |-> 0]
    /\ wake = [s \in DOMAIN siteList |-> 0]
    /\ permits = MAX_CONCURRENT_BROWSERS
    /\ waiters = <<>>
    /\ result = [s \in DOMAIN siteList |-> <<>>]
    /\ lastError = [s \in DOMAIN siteList |-> "none"]
    /\ backoffs = [s \in DOMAIN siteList |-> <<>>]
    /\ flow = NoFlow
    /\ ret = None
    /\ before = [s \in DOMAIN siteList |-> None]
    /\ buffer = None
    /\ outbox = [s \in DOMAIN siteList |-> <<>>]

\* main() in an installation that has a login module for every configured site
Boot(siteList, dir, t) ==
    BootWith(siteList, {siteList[i].domain : i \in DOMAIN siteList}, dir, t)

Init == \E dir \in InitialDirs : Boot(SystemSites, dir, T0)

SiteStep(s) ==
    \/ Start(s)
    \/ SleepWake(s)
    \/ BackoffWake(s)
    \/ LaunchOk(s)
    \/ LaunchFail(s)
    \/ \E cookies \in LoginCookies : LoginOk(s, cookies)
    \/ \E exc \in LoginErrors : LoginFail(s, exc)
    \/ SaveOpen(s)
    \/ SaveWrite(s)
    \/ SaveFlush(s)
    \/ SaveFsync(s)
    \/ SaveClose(s)
    \/ SaveRename(s)
    \/ SaveFail(s)
    \/ PingOk(s, "sent")
    \/ Alert(s, "sent")
    \/ PingFail(s, "sent")

Next ==
    \/ \E s \in Sites : SiteStep(s)
    \/ Tick
    \/ \E host \in SystemHosts, headers \in ClientHeaders : ProxyRequest(host, headers)
    \/ ProxyLoad
    \/ UpstreamResponse

Spec == Init /\ [][Next]_vars

-----------------------------------------------------------------------------
(* The semaphore under contention: more sites than permits.  Every login   *)
(* that returns, returns the same cookies; the store does not fail; the    *)
(* clock moves while all tasks sleep.                                      *)

GateSites == <<Site("nrc.nl"), Site("fd.nl"), Site("ft.com"), Site("bbc.co.uk")>>

GateCookies == <<[name |-> "sid", value |-> "abc", expires |-> -1]>>

\* the sites whose browser launch or login may fail
GateFlaky == {3, 4}

GateInit == Boot(GateSites, EmptyDir, T0)

GateStep(s) ==
    \/ Start(s)
    \/ SleepWake(s)
    \/ BackoffWake(s)
    \/ LaunchOk(s)
    \/ (s \in GateFlaky /\ LaunchFail(s))
    \/ LoginOk(s, GateCookies)
    \/ (s \in GateFlaky /\ LoginFail(s, "TimeoutError"))
    \/ SaveOpen(s)
    \/ SaveWrite(s)
    \/ SaveFlush(s)
    \/ SaveFsync(s)
    \/ SaveClose(s)
    \/ SaveRename(s)
    \/ PingOk(s, "sent")
    \/ Alert(s, "sent")
    \/ PingFail(s, "sent")

\* time passes while every task is asleep
IdleTick ==
    /\ \A s \in Sites : pc[s] \in {"startup_sleep", "sleep", "backoff"}
    /\ Tick

GateNext ==
    \/ \E s \in Sites : GateStep(s)
    \/ IdleTick

GateSpec == GateInit /\ [][GateNext]_vars

\* the steps of site s inside an attempt that has a permit or has had one:
\* the browser launch and the login end, one way or the other, and the
\* save, which contains no await, runs to its end
AttemptStep(s) ==
    \/ LaunchOk(s)
    \/ (s \in GateFlaky /\ LaunchFail(s))
    \/ LoginOk(s, GateCookies)
    \/ (s \in GateFlaky /\ LoginFail(s, "TimeoutError"))
    \/ SaveOpen(s)
    \/ SaveWrite(s)
    \/ SaveFlush(s)
    \/ SaveFsync(s)
    \/ SaveClose(s)
    \/ SaveRename(s)

-----------------------------------------------------------------------------
(* The readers over an arbitrary cookie directory: the proxy hook and      *)
(* direct calls of get_cookie_status and calculate_next_refresh, with no   *)
(* refresh task running.                                                   *)

\* cookies a file may hold: no expires field, a session cookie, expiries
\* around the clock readings, around now + 24h and around the clamps
ReaderCookies ==
    { [name |-> "a", value |-> "1"],
      [name |-> "b", value |-> "2", expires |-> -1],
      [name |-> "c", value |-> "3", expires |-> 0],
      [name |-> "d", value |-> "4", expires |-> T0],
      [name |-> "e", value |-> "5", expires |-> T0 + 8 * Hour],
      [name |-> "f", value |-> "6", expires |-> T0 + 24 * Hour],
      [name |-> "g", value |-> "7", expires |-> T0 + 32 * Hour],
      [name |-> "h", value |-> "8", expires |-> T0 + 48 * Hour] }

ReaderCookieLists == UNION {[1..n -> ReaderCookies] : n \in 0..MaxCookies}

ReaderMetadata == [refreshed_at |-> T0 - 24 * Hour, refresh_source |-> "scheduled"]

\* texts of loadable jar files
GoodTexts ==
    {json_dump([cookies |-> cs, metadata |-> ReaderMetadata]) : cs \in ReaderCookieLists}

\* texts load_cookies rejects: an empty file, a torn write, text that is not
\* JSON, objects without a cookies key
BadTexts ==
    { <<>>,
      <<LBrace, [cookies |-> <<>>]>>,
      <<Junk, LBrace, LBrace, LBrace>>,
      <<LBrace, RBrace>>,
      json_dump([metadata |-> ReaderMetadata]) }

ReaderDirs ==
    {EmptyDir} \cup {WithFile(EmptyDir, cookie_file("nrc.nl"), text) :
                        text \in GoodTexts \cup BadTexts}

ReaderTimes == {T0 - 4, T0, T0 + 4}

ReaderHosts ==
    { <<"www", "nrc", "nl">>, <<"nrc", "nl">>, <<"a", "b", "c", "nrc", "nl">>,
      <<"www", "fd", "nl">>, <<"localhost">>, <<"nl">>, <<"10", "0", "0", "1">> }

ReaderDomains == {"nrc.nl", "fd.nl"}

\* the cookie lists of the loadable jar files of directory d
JarCookies(d) ==
    {load_cookies(d, p).cookies : p \in {q \in DOMAIN d : load_cookies(d, q).err = "none"}}

ReaderInit == \E dir \in ReaderDirs, t \in ReaderTimes : Boot(<<>>, dir, t)

ReaderNext ==
    \/ \E host \in ReaderHosts, headers \in ClientHeaders : ProxyRequest(host, headers)
    \/ ProxyLoad
    \/ UpstreamResponse
    \/ \E cookies \in JarCookies(disk) : CallStatus(cookies)
    \/ \E domain \in ReaderDomains : CallNextRefresh(domain)

ReaderSpec == ReaderInit /\ [][ReaderNext]_vars

-----------------------------------------------------------------------------
(* The store under every kind of cookie a login may hand to it: the        *)
(* refresh loop of one site whose logins succeed, with a store that may    *)
(* fail at any step.                                                       *)

\* cookies a login routine may return: no expires field, a session cookie,
\* an expiry of 0, another negative expiry, expiries in the future
StoreCookies ==
    { [name |-> "a", value |-> "1"],
      [name |-> "b", value |-> "2", expires |-> -1],
      [name |-> "c", value |-> "3", expires |-> 0],
      [name |-> "d", value |-> "4", expires |-> -8],
      [name |-> "e", value |-> "5", expires |-> T0 + 12 * Hour],
      [name |-> "f", value |-> "6", expires |-> T0 + 48 * Hour] }

StoreCookieLists == UNION {[1..n -> StoreCookies] : n \in 0..MaxCookies}

\* a jar whose only cookie has expired, as an earlier run saved it
StaleJar ==
    SavedFile("nrc.nl", <<[name |-> "sid", value |-> "old", expires |-> T0 - 8 * Hour]>>,
              T0 - 32 * Hour)

\* cookie directories in which the loop refreshes at once: no jar or a jar
\* of expired cookies, with or without a temporary file that a save which
\* did not finish left behind
StoreDirs ==
    { EmptyDir,
      WithFile(EmptyDir, cookie_file("nrc.nl"), StaleJar),
      WithFile(EmptyDir, tmp_file("nrc.nl"), StaleJar),
      WithFile(WithFile(EmptyDir, cookie_file("nrc.nl"), StaleJar),
               tmp_file("nrc.nl"), SubSeq(StaleJar, 1, 2)) }

StoreInit == \E dir \in StoreDirs : Boot(SystemSites, dir, T0)

\* the first call of perform_refresh, up to the end of its first attempt
StoreStep(s) ==
    \/ Start(s)
    \/ LaunchOk(s)
    \/ \E cookies \in StoreCookieLists : LoginOk(s, cookies)
    \/ SaveOpen(s)
    \/ SaveWrite(s)
    \/ SaveFlush(s)
    \/ SaveFsync(s)
    \/ SaveClose(s)
    \/ SaveRename(s)
    \/ SaveFail(s)
    \/ PingOk(s, "sent")

StoreNext == \E s \in Sites : StoreStep(s)

StoreSpec == StoreInit /\ [][StoreNext]_vars

-----------------------------------------------------------------------------
(* Direct calls of apply_session_cookie_workaround *)

WorkaroundInit == \E t \in ReaderTimes : Boot(<<>>, EmptyDir, t)

WorkaroundNext == \E cookies \in StoreCookieLists : CallWorkaround(cookies)

WorkaroundSpec == WorkaroundInit /\ [][WorkaroundNext]_vars

-----------------------------------------------------------------------------

(* The health aggregator and the proxy over cookie directories with the    *)
(* jars of two domains and with temporary files.                           *)

\* jar texts, one of each status: ok, expiring, expired, not JSON, no cookies key
HealthTexts ==
    { json_dump([cookies |-> <<[name |-> "h", value |-> "8", expires |-> T0 + 48 * Hour]>>,
                 metadata |-> ReaderMetadata]),
      json_dump([cookies |-> <<[name |-> "e", value |-> "5", expires |-> T0 + 8 * Hour]>>,
                 metadata |-> ReaderMetadata]),
      json_dump([cookies |-> <<[name |-> "d", value |-> "4", expires |-> T0]>>,
                 metadata |-> ReaderMetadata]),
      <<Junk, LBrace, LBrace, LBrace>>,
      json_dump([metadata |-> ReaderMetadata]) }

\* temporary files: one being written, one written in full
TmpTexts ==
    { <<LBrace>>,
      json_dump([cookies |-> <<[name |-> "g", value |-> "7", expires |-> T0 + 32 * Hour]>>,
                 metadata |-> ReaderMetadata]) }

\* the directories that hold at most the file path, with one of the texts
OptionalFile(path, texts) == {EmptyDir} \cup {WithFile(EmptyDir, path, text) : text \in texts}

HealthDirs ==
    { a @@ b @@ c : a \in OptionalFile(cookie_file("nrc.nl"), HealthTexts),
                    b \in OptionalFile(cookie_file("fd.nl"), HealthTexts),
                    c \in OptionalFile(tmp_file("nrc.nl"), TmpTexts) }

HealthHosts == {<<"www", "nrc", "nl">>, <<"www", "fd", "nl">>}

HealthInit == \E dir \in ReaderDirs \cup HealthDirs, t \in ReaderTimes : Boot(<<>>, dir, t)

HealthNext ==
    \/ HealthGet
    \/ \E domain \in ReaderDomains : CallSiteStatus(domain)
    \/ \E host \in HealthHosts : ProxyRequest(host, <<>>)
    \/ ProxyLoad
    \/ UpstreamResponse

HealthSpec == HealthInit /\ [][HealthNext]_vars

-----------------------------------------------------------------------------
(* One site loop from start-up through its iterations, with and without a  *)
(* login module for the site, every outcome of the alerting calls, and     *)
(* the clock moving from one due timer to the next.                        *)

\* how far the clock runs
LoopHorizon == T0 + (MaxTicks + 2) * Grain

\* a jar saved eight hours ago whose cookie lives another forty hours
LongJar ==
    WithFile(EmptyDir, cookie_file("nrc.nl"),
             SavedFile("nrc.nl",
                       <<[name |-> "sid", value |-> "old", expires |-> T0 + 40 * Hour]>>,
                       T0 - 8 * Hour))

\* a jar whose cookie has exactly six hours left at start-up
ShortJar ==
    WithFile(EmptyDir, cookie_file("nrc.nl"),
             SavedFile("nrc.nl",
                       <<[name |-> "sid", value |-> "old", expires |-> T0 + 6 * Hour]>>,
                       T0 - 18 * Hour))

LoopDirs == InitialDirs \cup {LongJar, ShortJar}

\* the login modules the installation may have
LoopModules == {{}, {"nrc.nl"}}

LoopInit ==
    \E dir \in LoopDirs, modules \in LoopModules : BootWith(SystemSites, modules, dir, T0)

\* positions in which a task waits for a timer
Sleeping == {"startup_sleep", "sleep", "backoff"}

\* every task is in asyncio.sleep and no timer is due: the event loop waits
\* until the earliest one is
Advance ==
    /\ \A s \in Sites : pc[s] \in Sleeping /\ wake[s] > now
    /\ now < LoopHorizon
    /\ now' = Min({wake[s] : s \in Sites})
    /\ UNCHANGED <<disk, pc, attempt, wake, permits, waiters, result, lastError,
                   backoffs, flow, ret, sites, scripts, before, buffer, outbox>>

LoopStep(s) ==
    \/ Start(s)
    \/ SleepWake(s)
    \/ BackoffWake(s)
    \/ LaunchOk(s)
    \/ LaunchFail(s)
    \/ \E cookies \in LoginCookies : LoginOk(s, cookies)
    \/ \E exc \in LoginErrors : LoginFail(s, exc)
    \/ SaveOpen(s)
    \/ SaveWrite(s)
    \/ SaveFlush(s)
    \/ SaveFsync(s)
    \/ SaveClose(s)
    \/ SaveRename(s)
    \/ SaveFail(s)
    \/ \E outcome \in AlertOutcomes : PingOk(s, outcome)
    \/ \E outcome \in AlertOutcomes : Alert(s, outcome)
    \/ \E outcome \in AlertOutcomes : PingFail(s, outcome)

LoopNext ==
    \/ \E s \in Sites : LoopStep(s)
    \/ Advance

LoopSpec == LoopInit /\ [][LoopNext]_vars

-----------------------------------------------------------------------------
(* A configuration that lists the same domain twice: Config accepts it and *)
(* main() starts one task per entry.  Logins succeed and the store does    *)
(* not fail; the clock moves while both tasks sleep.                       *)

TwinSites == <<Site("nrc.nl"), Site("nrc.nl")>>

TwinInit == \E dir \in InitialDirs : Boot(TwinSites, dir, T0)

TwinStep(s) ==
    \/ Start(s)
    \/ SleepWake(s)
    \/ LaunchOk(s)
    \/ \E cookies \in LoginCookies : LoginOk(s, cookies)
    \/ SaveOpen(s)
    \/ SaveWrite(s)
    \/ SaveFlush(s)
    \/ SaveFsync(s)
    \/ SaveClose(s)
    \/ SaveRename(s)
    \/ PingOk(s, "sent")

TwinNext ==
    \/ \E s \in Sites : TwinStep(s)
    \/ IdleTick

TwinSpec == TwinInit /\ [][TwinNext]_vars

-----------------------------------------------------------------------------
(* One site loop whose login routine may return nothing usable: no cookie, *)
(* or only a cookie that has expired.  The store does not fail; the proxy  *)
(* handles requests for the site while the loop runs.                      *)

\* what the login routine may return
ReplaceCookies ==
    { <<>>,
      <<[name |-> "sid", value |-> "gone", expires |-> T0 - Hour]>>,
      <<[name |-> "sid", value |-> "new", expires |-> T0 + 48 * Hour]>> }

ReplaceInit == \E dir \in InitialDirs : Boot(SystemSites, dir, T0)

ReplaceStep(s) ==
    \/ Start(s)
    \/ SleepWake(s)
    \/ BackoffWake(s)
    \/ LaunchOk(s)
    \/ \E cookies \in ReplaceCookies : LoginOk(s, cookies)
    \/ LoginFail(s, "TimeoutError")
    \/ SaveOpen(s)
    \/ SaveWrite(s)
    \/ SaveFlush(s)
    \/ SaveFsync(s)
    \/ SaveClose(s)
    \/ SaveRename(s)
    \/ PingOk(s, "sent")
    \/ Alert(s, "sent")
    \/ PingFail(s, "sent")

ReplaceNext ==
    \/ \E s \in Sites : ReplaceStep(s)
    \/ Advance
    \/ ProxyRequest(<<"www", "nrc", "nl">>, <<>>)
    \/ ProxyLoad
    \/ UpstreamResponse

ReplaceSpec == ReplaceInit /\ [][ReplaceNext]_vars

-----------------------------------------------------------------------------
(* The semaphore at start-up, when every site wants its first login at     *)
(* once: more sites than permits, and every login attempt terminates.      *)

QueueStep(s) ==
    \/ Start(s)
    \/ AttemptStep(s)
    \/ PingOk(s, "sent")

QueueNext == \E s \in Sites : QueueStep(s)

QueueSpec ==
    /\ GateInit
    /\ [][QueueNext]_vars
    /\ \A s \in DOMAIN GateSites : WF_vars(AttemptStep(s))

-----------------------------------------------------------------------------

(* Properties of the refresh executor and the store (Spec, GateSpec) *)

InAttempt == {"waiting", "launch", "login"} \cup SavePCs

\* the times at which a save of the model may have built its data
SaveTimes == {T0 - 16 * Hour} \cup {T0 + k * Grain : k \in 0..MaxTicks}

\* the cookie lists a save of the model may have been given
SavedCookieLists ==
    LoginCookies \cup {GateCookies}
    \cup {<<[name |-> "sid", value |-> "old", expires |-> T0 + 8 * Hour]>>}

\* the texts of the complete jar files for a domain
WholeJars(domain) ==
    {SavedFile(domain, cs, t) : cs \in SavedCookieLists, t \in SaveTimes}

\* C1: when a refresh call has failed on all its attempts (the loop is about
\* to alert or to ping the failure), {domain}.json holds exactly what it held
\* when the call began, and a file that was absent then is still absent.
C1_FailedRefreshKeepsJar ==
    \A s \in Sites :
        pc[s] \in {"alert", "ping_fail"} =>
            FileAt(disk, cookie_file(DomainOf(s))) = before[s]

\* a call has failed with a store error as its last error, over an existing
\* jar, leaving a torn temporary file behind
C1_Witness ==
    \E s \in Sites :
        /\ pc[s] = "alert"
        /\ lastError[s] = "OSError"
        /\ before[s].exists
        /\ exists(disk, tmp_file(DomainOf(s)))
        /\ Len(disk[tmp_file(DomainOf(s))]) \in 1..3

\* C2: at every moment of every save, completed or aborted, each
\* {domain}.json that exists is a complete jar written by one save, and no
\* proxy request has found a jar file it could not load.
C2_ReadersSeeWholeJar ==
    /\ \A s \in Sites :
          exists(disk, cookie_file(DomainOf(s))) =>
              disk[cookie_file(DomainOf(s))] \in WholeJars(DomainOf(s))
    /\ (flow.stage \in {"requested", "responded"} /\ flow.response # None
        /\ flow.response.status_code = 502)
           => flow.response.body.status # "error"

\* the proxy stands between exists() and load_cookies while a save has
\* written part of the new text to the temporary file, over an existing jar
C2_Witness ==
    \E s \in Sites :
        /\ pc[s] = "save_flush"
        /\ Len(disk[tmp_file(DomainOf(s))]) \in 1..(Len(buffer) - 1)
        /\ exists(disk, cookie_file(DomainOf(s)))
        /\ flow.stage = "exists"
        /\ flow.domain = DomainOf(s)

\* the login-flow attempts that hold a browser
BrowsersOpen == {s \in Sites : pc[s] \in {"launch", "login"}}

\* C3: at most 3 login-flow attempts have a headless browser open at the
\* same time, however many sites are configured.
C3_AtMostThreeBrowsers == Cardinality(BrowsersOpen) <= 3

\* three browsers are open and a fourth site waits for a permit
C3_Witness ==
    /\ Cardinality({s \in Sites : pc[s] = "login"}) = 3
    /\ Len(waiters) >= 1

\* C4: a refresh call makes at most 3 attempts; the back-off sleeps it has
\* taken are 5s after the failed attempt 1 and 10s after the failed attempt
\* 2, none after the failed attempt 3; and after the attempt that succeeds
\* the jar holds that attempt's cookies with refresh_source "scheduled" and
\* the call has ended without a further attempt or sleep.
C4_AttemptsAndBackoffs ==
    \A s \in Sites :
        /\ attempt[s] <= 3
        /\ pc[s] \in InAttempt => backoffs[s] = SubSeq(<<5, 10>>, 1, attempt[s] - 1)
        /\ pc[s] = "backoff" =>
              /\ attempt[s] \in {1, 2}
              /\ backoffs[s] = SubSeq(<<5, 10>>, 1, attempt[s])
        /\ pc[s] = "alert" => attempt[s] = 3 /\ backoffs[s] = <<5, 10>>
        /\ pc[s] = "ping_ok" =>
              /\ backoffs[s] = SubSeq(<<5, 10>>, 1, attempt[s] - 1)
              /\ LET loaded == load_cookies(disk, cookie_file(DomainOf(s)))
                 IN  /\ loaded.err = "none"
                     /\ loaded.metadata.refresh_source = "scheduled"
                     /\ Len(loaded.cookies) = Len(result[s])
                     /\ \A i \in 1..Len(result[s]) :
                           /\ loaded.cookies[i].name = result[s][i].name
                           /\ loaded.cookies[i].value = result[s][i].value

\* a call has succeeded at its third attempt, after sleeping 5s and 10s
C4_Witness ==
    \E s \in Sites :
        /\ pc[s] = "ping_ok"
        /\ attempt[s] = 3
        /\ backoffs[s] = <<5, 10>>

-----------------------------------------------------------------------------
(* Properties of the readers (ReaderSpec: the directory and the clock do   *)
(* not change, so a request can be compared with the file it was served    *)
(* from).                                                                  *)

\* the registered domain of each host of ReaderHosts, "" for a host that has none
RegisteredDomain ==
    (<<"www", "nrc", "nl">> :> "nrc.nl") @@ (<<"nrc", "nl">> :> "nrc.nl")
    @@ (<<"a", "b", "c", "nrc", "nl">> :> "nrc.nl") @@ (<<"www", "fd", "nl">> :> "fd.nl")
    @@ (<<"localhost">> :> "") @@ (<<"nl">> :> "") @@ (<<"10", "0", "0", "1">> :> "")

\* the cookie is not yet expired at time t
Fresh(c, t) == "expires" \in DOMAIN c /\ c.expires > t

\* the cookie list written in a loadable jar text
CookiesIn(text) == text[2].cookies

\* the request hook has returned
Handled == flow.stage \in {"requested", "responded"}

\* the flow carries the 502 the addon synthesises for this reason and domain
Is502(reason, domain) ==
    /\ flow.response # None
    /\ flow.response.status_code = 502
    /\ flow.response.body.status = reason
    /\ flow.response.headers["X-Cookie-Injector-Status"] = reason
    /\ flow.response.body.domain = domain

\* the addon has not answered in place of the upstream server
NotShortCircuited == flow.response = None \/ flow.response.status_code # 502

\* the handled request is one the addon has to inject cookies into
MustInject ==
    /\ Handled
    /\ RegisteredDomain[flow.host] # ""
    /\ exists(disk, cookie_file(RegisteredDomain[flow.host]))
    /\ disk[cookie_file(RegisteredDomain[flow.host])] \notin BadTexts
    /\ \E i \in DOMAIN CookiesIn(disk[cookie_file(RegisteredDomain[flow.host])]) :
          Fresh(CookiesIn(disk[cookie_file(RegisteredDomain[flow.host])])[i], now)

\* C5: the outcome of a handled request is: host without a registered domain
\* -> passed through with the headers as sent and no synthesised response;
\* jar file absent -> 502 "missing"; jar file not loadable -> 502 "error";
\* no cookie with expires > now -> 502 "expired"; otherwise no 502 and a
\* Cookie header is set.  In a 502 the body's status, the
\* X-Cookie-Injector-Status header and the reason agree and the body's
\* domain is the registered domain.
C5_ProxyOutcome ==
    Handled =>
        LET dom == RegisteredDomain[flow.host]
            path == cookie_file(dom)
        IN  IF dom = ""
            THEN NotShortCircuited /\ flow.headers = flow.sent
            ELSE IF ~exists(disk, path) THEN Is502("missing", dom)
            ELSE IF disk[path] \in BadTexts THEN Is502("error", dom)
            ELSE IF ~\E i \in DOMAIN CookiesIn(disk[path]) :
                        Fresh(CookiesIn(disk[path])[i], now)
            THEN Is502("expired", dom)
            ELSE /\ NotShortCircuited
                 /\ "Cookie" \in DOMAIN flow.headers
                 /\ flow.headers["Cookie"] # ""

\* a request for a deep subdomain met a jar file without a cookies key
C5_Witness ==
    /\ Handled
    /\ flow.host = <<"a", "b", "c", "nrc", "nl">>
    /\ exists(disk, cookie_file("nrc.nl"))
    /\ disk[cookie_file("nrc.nl")] = json_dump([metadata |-> ReaderMetadata])
    /\ Is502("error", "nrc.nl")

RECURSIVE CookieHeaderOf(_, _)
\* "name=value" of the cookies of cs that are fresh at t, in the order of cs,
\* separated by "; "
CookieHeaderOf(cs, t) ==
    IF Len(cs) = 0 THEN ""
    ELSE LET rest == CookieHeaderOf(Tail(cs), t)
             pair == Head(cs).name \o "=" \o Head(cs).value
         IN  IF ~Fresh(Head(cs), t) THEN rest
             ELSE IF rest = "" THEN pair
             ELSE pair \o "; " \o rest

\* C6: when the proxy injects, the request's Cookie header is exactly the
\* "name=value" pairs of the jar's cookies with expires > now, in jar order,
\* joined by "; "; nothing of an expired cookie or of the client's own
\* Cookie header is in it.
C6_InjectedCookieHeader ==
    MustInject =>
        /\ "Cookie" \in DOMAIN flow.headers
        /\ flow.headers["Cookie"] =
              CookieHeaderOf(CookiesIn(disk[cookie_file(RegisteredDomain[flow.host])]), now)

\* a jar with an expired cookie before a fresh one was injected into a
\* request that came with its own Cookie header
C6_Witness ==
    /\ MustInject
    /\ "Cookie" \in DOMAIN flow.sent
    /\ LET cs == CookiesIn(disk[cookie_file(RegisteredDomain[flow.host])])
       IN  /\ Len(cs) = 2
           /\ ~Fresh(cs[1], now)
           /\ "expires" \in DOMAIN cs[1]
           /\ cs[1].expires = now
           /\ Fresh(cs[2], now)

\* C7: after an injection the forwarded request carries no
\* X-Cookie-Injector-Status header, and the upstream response, once it has
\* arrived, carries the status (ok or expiring) of the jar.
C7_StatusOnResponseOnly ==
    MustInject =>
        /\ "X-Cookie-Injector-Status" \notin DOMAIN flow.headers
        /\ flow.stage = "responded" =>
              /\ "X-Cookie-Injector-Status" \in DOMAIN flow.response.headers
              /\ flow.response.headers["X-Cookie-Injector-Status"] \in {"ok", "expiring"}

\* the return value of the last direct call of get_cookie_status
StatusReturned == ret # None /\ ret.fn = "get_cookie_status"

RECURSIVE FreshOnes(_, _)
\* the cookies of cs that are fresh at t, in the order of cs
FreshOnes(cs, t) ==
    IF Len(cs) = 0 THEN <<>>
    ELSE IF Fresh(Head(cs), t) THEN <<Head(cs)>> \o FreshOnes(Tail(cs), t)
    ELSE FreshOnes(Tail(cs), t)

\* C8: get_cookie_status returns ("expired", []) exactly when no cookie has
\* expires > now; otherwise it returns the cookies with expires > now in
\* input order, with "expiring" exactly when one of them expires less than
\* 24h from now and "ok" when none does.
C8_Classify ==
    StatusReturned =>
        LET cs == ret.cookies
            anyFresh == \E i \in DOMAIN cs : Fresh(cs[i], ret.at)
            soon == \E i \in DOMAIN cs :
                        Fresh(cs[i], ret.at) /\ cs[i].expires - ret.at < 24 * 3600
        IN  /\ ret.value.status = "expired" <=> ~anyFresh
            /\ ret.value.valid = FreshOnes(cs, ret.at)
            /\ anyFresh => (ret.value.status = "expiring" <=> soon)
            /\ anyFresh => (ret.value.status = "ok" <=> ~soon)

\* a jar whose first cookie has exactly 24h left and whose second expires
\* later is "ok"
C8_Witness ==
    /\ StatusReturned
    /\ Len(ret.cookies) = 2
    /\ Fresh(ret.cookies[1], ret.at)
    /\ ret.cookies[1].expires - ret.at = 24 * 3600
    /\ Fresh(ret.cookies[2], ret.at)
    /\ ret.value.status = "ok"

\* the return value of the last direct call of calculate_next_refresh
IntervalReturned == ret # None /\ ret.fn = "calculate_next_refresh"

\* C9: calculate_next_refresh returns 0 or a value from 6h to 24h.
C9_IntervalRange ==
    IntervalReturned =>
        \/ ret.value = 0
        \/ 6 * 3600 <= ret.value /\ ret.value <= 24 * 3600

\* a jar whose only fresh cookie expires 4 seconds from now gave 6h
C9_Witness ==
    /\ IntervalReturned
    /\ ret.domain = "nrc.nl"
    /\ exists(disk, cookie_file("nrc.nl"))
    /\ disk[cookie_file("nrc.nl")] \notin BadTexts
    /\ \E i \in DOMAIN CookiesIn(disk[cookie_file("nrc.nl")]) :
          LET c == CookiesIn(disk[cookie_file("nrc.nl")])[i]
          IN  Fresh(c, ret.at) /\ c.expires - ret.at = 4
    /\ ret.value = 6 * 3600

\* C10: calculate_next_refresh returns 0 when the jar file is missing, is
\* not loadable or has no cookie with expires > now; otherwise, with E the
\* smallest expires among the cookies with expires > now, it returns
\* 0.75 * (E - now) limited to the range from 6h to 24h.
C10_IntervalValue ==
    IntervalReturned =>
        LET path == cookie_file(ret.domain)
        IN  IF ~exists(disk, path) THEN ret.value = 0
            ELSE IF disk[path] \in BadTexts THEN ret.value = 0
            ELSE LET cs == CookiesIn(disk[path])
                     fresh == {i \in DOMAIN cs : Fresh(cs[i], ret.at)}
                 IN  IF fresh = {} THEN ret.value = 0
                     ELSE LET first == CHOOSE i \in fresh :
                                          \A j \in fresh : cs[i].expires <= cs[j].expires
                              L == cs[first].expires - ret.at
                          IN  /\ 3 * L < 4 * (6 * 3600) => ret.value = 6 * 3600
                              /\ 3 * L > 4 * (24 * 3600) => ret.value = 24 * 3600
                              /\ (3 * L >= 4 * (6 * 3600) /\ 3 * L <= 4 * (24 * 3600))
                                    => 4 * ret.value = 3 * L

\* a jar with a cookie that has 24h left, listed after one that expires
\* later, gave 18h
C10_Witness ==
    /\ IntervalReturned
    /\ ret.domain = "nrc.nl"
    /\ exists(disk, cookie_file("nrc.nl"))
    /\ disk[cookie_file("nrc.nl")] \notin BadTexts
    /\ LET cs == CookiesIn(disk[cookie_file("nrc.nl")])
       IN  /\ Len(cs) = 2
           /\ Fresh(cs[1], ret.at) /\ cs[1].expires - ret.at = 48 * 3600
           /\ Fresh(cs[2], ret.at) /\ cs[2].expires - ret.at = 24 * 3600
    /\ ret.value = 18 * 3600

-----------------------------------------------------------------------------
(* Properties of the refresh loop (Spec, GateSpec) *)

\* the loop of site s has made no refresh attempt yet
BeforeFirstAttempt(s) == pc[s] \in {"start", "startup_sleep"}

\* C11: a site loop leaves its start exactly once.  With initial the value
\* of calculate_next_refresh at that moment: if initial >= 6h the loop goes
\* to sleep until now + initial without having made an attempt, and its
\* first attempt begins only when that sleep is over; if initial < 6h the
\* first attempt begins in the same step, with no sleep before it.
C11_StartupSkip ==
    [][\A s \in Sites :
          LET initial == calculate_next_refresh(disk, DomainOf(s), now)
          IN  /\ (pc[s] = "start" /\ pc'[s] # "start" /\ initial >= 6 * 3600) =>
                    /\ pc'[s] = "startup_sleep"
                    /\ wake'[s] = now + initial
                    /\ attempt'[s] = 0
              /\ (pc[s] = "start" /\ pc'[s] # "start" /\ initial < 6 * 3600) =>
                    /\ pc'[s] \in {"waiting", "launch", "backoff"}
                    /\ attempt'[s] = 1
              /\ (pc[s] = "startup_sleep" /\ pc'[s] # "startup_sleep") =>
                    /\ now >= wake[s]
                    /\ pc'[s] \in {"waiting", "launch", "backoff"}
                    /\ attempt'[s] = 1
              /\ pc[s] # "start" => pc'[s] # "start"
              /\ ~BeforeFirstAttempt(s) => ~BeforeFirstAttempt(s)'
      ]_vars

\* a loop that found a jar worth exactly 6h has begun its first attempt
\* after sleeping those 6h
C11_Witness ==
    \E s \in Sites :
        /\ pc[s] = "launch"
        /\ attempt[s] = 1
        /\ lastError[s] = "none"
        /\ now = T0 + 6 * Hour
        /\ before[s].exists
        /\ json_load(before[s].text).data.metadata.refreshed_at = T0 - 16 * Hour
        /\ calculate_next_refresh(disk, DomainOf(s), T0) = 6 * 3600

\* in this step an attempt of site s fails, or the loop of s deals with a
\* call that failed on all its attempts
FailureStep(s) ==
    \/ pc'[s] \in {"backoff", "alert"} /\ <<pc[s], attempt[s]>> # <<pc'[s], attempt'[s]>>
    \/ pc[s] \in {"alert", "ping_fail"} /\ pc'[s] # pc[s]

\* the cookie directory with only the files of the domain of site t
OwnFiles(t) ==
    [p \in DOMAIN disk \cap {cookie_file(DomainOf(t)), tmp_file(DomainOf(t))} |-> disk[p]]

\* the sleep the loop of t takes after a cycle, computed from its own jar
OwnInterval(t) ==
    LET own == calculate_next_refresh(OwnFiles(t), DomainOf(t), now)
    IN  IF own = 0 THEN 6 * 3600 ELSE own

\* no failure has cost a permit: every permit is free or held by an open
\* browser, and a loop waits only while three browsers are open
PermitsAccounted ==
    /\ permits + Cardinality(BrowsersOpen) = 3
    /\ Len(waiters) > 0 => permits = 0
    /\ \A t \in Sites : pc[t] = "waiting" => \E i \in 1..Len(waiters) : waiters[i] = t

\* the loops of the sites whose logins always succeed never see a failure
HealthyLoopsUnharmed ==
    \A t \in Sites \ GateFlaky :
        /\ pc[t] \notin {"backoff", "alert", "ping_fail"}
        /\ lastError[t] = "none"
        /\ exists(disk, cookie_file(DomainOf(t))) =>
              disk[cookie_file(DomainOf(t))] \in WholeJars(DomainOf(t))

\* C12: a step in which one domain's attempt or call fails leaves every
\* other domain's jar file, temporary file, deadline and attempt state as
\* they were, and moves another loop only by handing it the permit it
\* waits for; failures never cost a permit, so a waiting loop is always
\* behind three open browsers; the loops whose own logins succeed never
\* fail; and every loop sets its next sleep from its own jar alone.
C12_FailuresStayLocal ==
    /\ [](PermitsAccounted /\ HealthyLoopsUnharmed)
    /\ [][\A s \in Sites :
            /\ FailureStep(s) =>
                  \A t \in Sites :
                      DomainOf(t) # DomainOf(s) =>
                          /\ FileAt(disk', cookie_file(DomainOf(t)))
                                = FileAt(disk, cookie_file(DomainOf(t)))
                          /\ FileAt(disk', tmp_file(DomainOf(t)))
                                = FileAt(disk, tmp_file(DomainOf(t)))
                          /\ wake'[t] = wake[t]
                          /\ attempt'[t] = attempt[t]
                          /\ result'[t] = result[t]
                          /\ lastError'[t] = lastError[t]
                          /\ pc'[t] = pc[t] \/ (pc[t] = "waiting" /\ pc'[t] = "launch")
            /\ (pc[s] \in {"ping_ok", "ping_fail"} /\ pc'[s] = "sleep") =>
                  wake'[s] = now + OwnInterval(s)
       ]_vars

\* a domain has failed a whole call and begun to fail the next one while
\* another domain sleeps on the schedule of the jar it saved
C12_Witness ==
    \E s, t \in Sites :
        /\ pc[s] = "backoff"
        /\ attempt[s] = 1
        /\ now = T0 + 18 * Hour
        /\ ~exists(disk, cookie_file(DomainOf(s)))
        /\ pc[t] = "sleep"
        /\ exists(disk, cookie_file(DomainOf(t)))
        /\ wake[t] = T0 + 24 * Hour

-----------------------------------------------------------------------------
(* Properties of the store (StoreSpec, WorkaroundSpec) *)

\* the cookie lists found in the files of the directory, whole or torn
CookieListsOnDisk ==
    UNION { {disk[p][i].cookies :
                i \in {j \in 1..Len(disk[p]) : "cookies" \in DOMAIN disk[p][j]}} :
            p \in DOMAIN disk }

\* the save of site s has returned
Saved(s) == pc[s] = "ping_ok"

\* C13: no cookie that a save has put on disk, in the jar or in the
\* temporary file, has expires = -1 or lacks an expires field.
C13_NoSessionCookieOnDisk ==
    \A cs \in CookieListsOnDisk :
        \A i \in 1..Len(cs) : "expires" \in DOMAIN cs[i] /\ cs[i].expires # -1

\* a save was given a cookie without an expires field and a cookie with
\* expires = -1, and its jar holds both with the expiry of 30 days
C13_Witness ==
    \E s \in Sites :
        /\ Saved(s)
        /\ Len(result[s]) = 2
        /\ "expires" \notin DOMAIN result[s][1]
        /\ "expires" \in DOMAIN result[s][2] /\ result[s][2].expires = -1
        /\ LET cs == CookiesIn(disk[cookie_file(DomainOf(s))])
           IN  /\ cs[1].expires = now + 30 * 24 * 3600
               /\ cs[2].expires = now + 30 * 24 * 3600

\* C14: every cookie that a save has put on disk has an expires that is a
\* positive integer.
C14_ExpiresPositiveOnDisk ==
    \A cs \in CookieListsOnDisk :
        \A i \in 1..Len(cs) :
            "expires" \in DOMAIN cs[i] /\ cs[i].expires \in Nat \ {0}

\* the last direct call of apply_session_cookie_workaround has returned
WorkaroundReturned == ret # None /\ ret.fn = "apply_session_cookie_workaround"

\* a session cookie: expires is -1 (a cookie without the field counts as one)
IsSession(c) == "expires" \notin DOMAIN c \/ c.expires = -1

\* C15: apply_session_cookie_workaround returns a list of the length of its
\* input in which, position by position, a session cookie has become the
\* same cookie with expires = now + 30*24*3600 (the same now for the whole
\* call) and every other cookie is equal to the input's in every field; the
\* caller's list and its cookies are after the call what they were before.
C15_WorkaroundPure ==
    WorkaroundReturned =>
        /\ Len(ret.value) = Len(ret.cookies)
        /\ \A i \in 1..Len(ret.cookies) :
              IF IsSession(ret.cookies[i])
              THEN /\ DOMAIN ret.value[i] = DOMAIN ret.cookies[i] \cup {"expires"}
                   /\ ret.value[i].expires = ret.at + 30 * 24 * 3600
                   /\ \A k \in DOMAIN ret.cookies[i] \ {"expires"} :
                         ret.value[i][k] = ret.cookies[i][k]
              ELSE ret.value[i] = ret.cookies[i]
        /\ ret.after = ret.cookies

\* a call with a session cookie before a cookie that has an expiry
C15_Witness ==
    /\ WorkaroundReturned
    /\ Len(ret.cookies) = 2
    /\ "expires" \in DOMAIN ret.cookies[1] /\ ret.cookies[1].expires = -1
    /\ ~IsSession(ret.cookies[2])
    /\ ret.value[1].expires = ret.at + 30 * 24 * 3600
    /\ ret.value[2].expires = ret.cookies[2].expires
    /\ ret.after[1].expires = -1

\* what the jar of a save holds for the cookies cs saved at time t
JarCookiesFor(cs, t) ==
    [i \in 1..Len(cs) |->
        IF "expires" \in DOMAIN cs[i] /\ cs[i].expires # -1
        THEN cs[i]
        ELSE [k \in DOMAIN cs[i] \cup {"expires"} |->
                 IF k = "expires" THEN t + 30 * 24 * 3600 ELSE cs[i][k]]]

\* C16: while a save has not renamed, and after it has failed at open,
\* write, flush, fsync or close, {domain}.json is what it was before the
\* call; when the save has returned, {domain}.json holds the new jar and
\* there is no {domain}.json.tmp.
C16_SaveAllOrNothing ==
    \A s \in Sites :
        /\ pc[s] \in SavePCs => FileAt(disk, cookie_file(DomainOf(s))) = before[s]
        /\ (pc[s] \in {"backoff", "alert"} /\ lastError[s] = "OSError") =>
              FileAt(disk, cookie_file(DomainOf(s))) = before[s]
        /\ Saved(s) =>
              /\ ~exists(disk, tmp_file(DomainOf(s)))
              /\ exists(disk, cookie_file(DomainOf(s)))
              /\ LET text == disk[cookie_file(DomainOf(s))]
                 IN  /\ Len(text) = 4
                     /\ text[1] = LBrace /\ text[4] = RBrace
                     /\ text[2] = [cookies |-> JarCookiesFor(result[s], now)]
                     /\ text[3].metadata.cookies_count = Len(result[s])
                     /\ text[3].metadata.site_config = DomainOf(s)

\* a save has replaced an existing jar in a directory that held the
\* temporary file of a save that did not finish
C16_Witness ==
    \E s \in Sites :
        /\ Saved(s)
        /\ before[s].exists
        /\ before[s].text = StaleJar
        /\ disk[cookie_file(DomainOf(s))] # StaleJar
        /\ Len(result[s]) = 2
        /\ DOMAIN disk = {cookie_file(DomainOf(s))}

\* every cookie of the list has an expiry of its own
NonSession(cs) ==
    \A i \in 1..Len(cs) : "expires" \in DOMAIN cs[i] /\ cs[i].expires # -1

\* C17: when a save of cookies that all have a non-session expiry has
\* returned, loading the jar gives a list of the same length with, at each
\* position, the name, the value and the expires of the cookie saved.
C17_RoundTrip ==
    \A s \in Sites :
        (Saved(s) /\ NonSession(result[s])) =>
            LET loaded == load_cookies(disk, cookie_file(DomainOf(s)))
            IN  /\ loaded.err = "none"
                /\ Len(loaded.cookies) = Len(result[s])
                /\ \A i \in 1..Len(result[s]) :
                      /\ loaded.cookies[i].name = result[s][i].name
                      /\ loaded.cookies[i].value = result[s][i].value
                      /\ loaded.cookies[i].expires = result[s][i].expires

\* two different cookies with expiries of their own were saved and loaded
C17_Witness ==
    \E s \in Sites :
        /\ Saved(s)
        /\ NonSession(result[s])
        /\ Len(result[s]) = 2
        /\ result[s][1].name = "f"
        /\ result[s][2].name = "c"
        /\ load_cookies(disk, cookie_file(DomainOf(s))).cookies = result[s]

-----------------------------------------------------------------------------
(* Properties of the health aggregator (HealthSpec: the directory and the  *)
(* clock do not change, so a response can be compared with the files it    *)
(* was made from).                                                         *)

\* the last health response
HealthReturned == ret # None /\ ret.fn = "get_health_status"

\* the domains that have a file {domain}.json in the directory
JarDomains == {domain \in ReaderDomains : exists(disk, cookie_file(domain))}

\* some domain has a temporary file in the directory
TmpPresent == \E domain \in ReaderDomains : exists(disk, tmp_file(domain))

\* C18: whatever temporary files the directory holds, the sites map of a
\* health response has an entry for each {domain}.json and for nothing
\* else, and the proxy answers from {domain}.json alone: 502 "missing" when
\* that file is absent, and when it injects, the cookies of that file.
C18_TmpFilesNotSurfaced ==
    /\ HealthReturned => DOMAIN ret.value.sites = JarDomains
    /\ (Handled /\ ~exists(disk, cookie_file(RegisteredDomain[flow.host]))) =>
          Is502("missing", RegisteredDomain[flow.host])
    /\ MustInject =>
          flow.headers["Cookie"] =
              CookieHeaderOf(CookiesIn(disk[cookie_file(RegisteredDomain[flow.host])]), now)

\* with a complete temporary file of nrc.nl and no jar of nrc.nl in the
\* directory, the health response lists fd.nl only and the proxy has
\* answered a request for nrc.nl with 502 "missing"
C18_Witness ==
    /\ HealthReturned
    /\ exists(disk, tmp_file("nrc.nl"))
    /\ Len(disk[tmp_file("nrc.nl")]) = 4
    /\ ~exists(disk, cookie_file("nrc.nl"))
    /\ DOMAIN ret.value.sites = {"fd.nl"}
    /\ Handled
    /\ flow.host = <<"www", "nrc", "nl">>
    /\ Is502("missing", "nrc.nl")

\* the per-jar statuses of a health response
SiteStatuses(response) == {response.sites[domain].status : domain \in DOMAIN response.sites}

\* C19: the overall status of a health response is "error" exactly when it
\* has no jar or every jar's status is "error", "ok" exactly when it has a
\* jar and every jar's status is "ok", and "degraded" in every other case.
C19_OverallStatus ==
    HealthReturned =>
        LET none == DOMAIN ret.value.sites = {}
            allError == SiteStatuses(ret.value) \subseteq {"error"}
            allOk == SiteStatuses(ret.value) \subseteq {"ok"}
        IN  /\ ret.value.status = "error" <=> (none \/ allError)
            /\ ret.value.status = "ok" <=> (~none /\ allOk)
            /\ ret.value.status = "degraded" <=> ~(none \/ allError) /\ ~(~none /\ allOk)
            /\ ret.value.status \in {"error", "ok", "degraded"}

\* one jar is ok and the other is in error: the whole is degraded
C19_Witness ==
    /\ HealthReturned
    /\ DOMAIN ret.value.sites = {"nrc.nl", "fd.nl"}
    /\ ret.value.sites["nrc.nl"].status = "ok"
    /\ ret.value.sites["fd.nl"].status = "error"
    /\ ret.value.status = "degraded"

\* the last direct call of get_site_status has returned
SiteStatusReturned == ret # None /\ ret.fn = "get_site_status"

\* the status classify gives the cookies cs at time t
ClassOf(cs, t) ==
    IF ~\E i \in DOMAIN cs : Fresh(cs[i], t) THEN "expired"
    ELSE IF \E i \in DOMAIN cs : Fresh(cs[i], t) /\ cs[i].expires - t < 24 * 3600
    THEN "expiring"
    ELSE "ok"

\* C20: the health status of a jar file is "error" exactly when the file
\* does not load (it is not JSON, or it is an object without a cookies
\* key), and otherwise it is the status classify gives the file's cookies;
\* so a proxy request for the domain at the same time has got 502 with that
\* status when the status is error or expired, and no 502 otherwise.
C20_HealthAgreesWithProxy ==
    SiteStatusReturned =>
        LET text == disk[cookie_file(ret.domain)]
        IN  /\ ret.value.status = "error" <=> text \in BadTexts
            /\ text \notin BadTexts =>
                  ret.value.status = ClassOf(CookiesIn(text), ret.at)
            /\ (Handled /\ RegisteredDomain[flow.host] = ret.domain) =>
                  IF ret.value.status \in {"error", "expired"}
                  THEN Is502(ret.value.status, ret.domain)
                  ELSE NotShortCircuited

\* C21: every per-site health entry has a cookies_count; it is the number
\* of the jar's cookies whose expires is later than the time of the call,
\* and it is 0 when the entry's status is "expired" and 0 when the entry's
\* status is "error".
C21_CookiesCount ==
    SiteStatusReturned =>
        LET entry == ret.value
            text == disk[cookie_file(ret.domain)]
        IN  /\ "cookies_count" \in DOMAIN entry
            /\ entry.status \in {"expired", "error"} => entry.cookies_count = 0
            /\ text \notin BadTexts =>
                  entry.cookies_count =
                      Cardinality({i \in DOMAIN CookiesIn(text) :
                                       Fresh(CookiesIn(text)[i], ret.at)})

\* C22: when no login module is registered for a site's domain, a call of
\* perform_refresh ends at the first attempt, in which the missing module
\* is discovered: it makes no second or third attempt and sleeps through
\* no back-off.
C22_NoScriptIsTerminal ==
    \A s \in Sites :
        DomainOf(s) \notin scripts =>
            /\ attempt[s] <= 1
            /\ backoffs[s] = <<>>
            /\ pc[s] # "backoff"

\* the call of send_ntfy_alert the loop of site s has just made
AlertSent(s) == outbox[s][Len(outbox[s])]

\* C23: when all three attempts of a refresh have failed, the error that
\* reaches the loop names the domain and carries the error of the last
\* attempt, so the error text of the push alert contains that last error.
C23_AlertCarriesLastError ==
    \A s \in Sites :
        pc[s] = "ping_fail" =>
            /\ attempt[s] = MAX_RETRIES
            /\ AlertSent(s).call = "send_ntfy_alert"
            /\ AlertSent(s).domain = DomainOf(s)
            /\ \E i \in DOMAIN AlertSent(s).error : AlertSent(s).error[i] = DomainOf(s)
            /\ \E i \in DOMAIN AlertSent(s).error : AlertSent(s).error[i] = lastError[s]

\* the permits that are held
HeldPermits == MAX_CONCURRENT_BROWSERS - permits

\* the task of site s is inside a login-flow attempt, past the semaphore
InLoginFlow(f, s) == f[s] \in {"launch", "login"}

\* C24: a task holds a permit of the semaphore only inside a login-flow
\* attempt (browser launch, login, cookie extraction): the permits held
\* are as many as the tasks inside one, a task that enters one takes a
\* permit and a task that leaves one, for a back-off sleep, the save, or
\* the alert, gives its permit back or hands it to the first waiter; so
\* tasks in a back-off sleep, a scheduler sleep, saving or alerting hold none.
C24_PermitOnlyInLoginFlow ==
    /\ [](HeldPermits = Cardinality(BrowsersOpen))
    /\ [][\A s \in Sites :
            /\ (~InLoginFlow(pc, s) /\ InLoginFlow(pc', s)) =>
                  \/ permits' = permits - 1 /\ waiters' = waiters
                  \/ /\ Len(waiters) > 0 /\ Head(waiters) = s
                     /\ waiters' = Tail(waiters)
                     /\ \E t \in Sites : InLoginFlow(pc, t) /\ ~InLoginFlow(pc', t)
            /\ (InLoginFlow(pc, s) /\ ~InLoginFlow(pc', s)) =>
                  /\ pc'[s] \in {"backoff", "alert", "save_open"}
                  /\ \/ permits' = permits + 1 /\ waiters = <<>>
                     \/ /\ Len(waiters) > 0 /\ permits' = permits
                        /\ InLoginFlow(pc', Head(waiters))]_vars

\* one task sleeps through a back-off, one saves, one sleeps until its next
\* refresh, and the only permit taken is that of the fourth, which is logging in
C24_Witness ==
    /\ pc[3] = "backoff"
    /\ pc[1] \in SavePCs
    /\ pc[2] = "sleep"
    /\ pc[4] = "login"
    /\ HeldPermits = 1

\* what an alerting call is: a push alert, a liveness success ping or a
\* liveness failure ping
KindOf(call) ==
    IF call.call = "send_ntfy_alert" THEN "alert"
    ELSE IF call.success THEN "ping_success" ELSE "ping_failure"

\* the alerting calls site s has made in its current loop iteration, in order
Kinds(s) == [i \in DOMAIN outbox[s] |-> KindOf(outbox[s][i])]

\* C25: in every loop iteration, a refresh that succeeds is followed by
\* exactly one liveness success ping and no push alert, and a refresh that
\* fails by exactly one push alert and then exactly one liveness failure
\* ping; no alerting call is made before the refresh has ended, and no
\* success ping is made for a failed refresh.
C25_AlertingPerIteration ==
    /\ [](\A s \in Sites :
            /\ pc[s] \in {"start", "startup_sleep", "backoff", "ping_ok", "alert"}
                         \cup InAttempt => Kinds(s) = <<>>
            /\ pc[s] = "alert" => attempt[s] = MAX_RETRIES /\ lastError[s] # "none"
            /\ pc[s] = "ping_fail" => Kinds(s) = <<"alert">>
            /\ pc[s] = "sleep" =>
                  Kinds(s) \in {<<"ping_success">>, <<"alert", "ping_failure">>})
    /\ [][\A s \in Sites :
            /\ pc'[s] = "ping_ok" =>
                   /\ pc[s] \in {"save_rename", "ping_ok"}
                   /\ exists(disk', cookie_file(DomainOf(s)))
                   /\ disk'[cookie_file(DomainOf(s))] =
                          SavedFile(DomainOf(s), result[s], now)
            /\ (pc[s] = "ping_ok" /\ pc'[s] # "ping_ok") =>
                   pc'[s] = "sleep" /\ Kinds(s)' = <<"ping_success">>
            /\ (pc[s] = "alert" /\ pc'[s] # "alert") =>
                   pc'[s] = "ping_fail" /\ Kinds(s)' = <<"alert">>
            /\ (pc[s] = "ping_fail" /\ pc'[s] # "ping_fail") =>
                   pc'[s] = "sleep" /\ Kinds(s)' = <<"alert", "ping_failure">>]_vars

\* a failed iteration is over: the alert and then the failure ping were
\* made, and neither got through
C25_Witness ==
    \E s \in Sites :
        /\ pc[s] = "sleep"
        /\ Kinds(s) = <<"alert", "ping_failure">>
        /\ \A i \in DOMAIN outbox[s] : outbox[s][i].outcome = "failed"

\* the positions of a site loop that is running
LoopPositions ==
    {"start", "startup_sleep", "waiting", "launch", "login", "backoff", "ping_ok",
     "alert", "ping_fail", "sleep"} \cup SavePCs

\* C26: a site loop never stops because of the outcome of a refresh or of
\* an alerting call: whatever they were, the loop is at a position of its
\* code, where it waits (for a timer or for a permit) or has a step to take;
\* and after an alerting call that failed the loop has gone on, to the
\* failure ping or to its sleep until the next iteration.
C26_LoopNeverStops ==
    \A s \in Sites :
        /\ pc[s] \in LoopPositions
        /\ pc[s] \in Sleeping \cup {"waiting"} \/ ENABLED LoopStep(s)
        /\ pc[s] \in Sleeping => wake[s] <= now \/ ENABLED Advance \/ now >= LoopHorizon
        /\ (\E i \in DOMAIN outbox[s] : outbox[s][i].outcome = "failed") =>
              pc[s] \in {"ping_fail", "sleep"}

\* every attempt of the first iteration failed; six hours later the loop is
\* in the first attempt of its second iteration
C26_Witness ==
    \E s \in Sites :
        /\ DomainOf(s) \in scripts
        /\ ~exists(disk, cookie_file(DomainOf(s)))
        /\ now = T0 + 15 + MIN_INTERVAL
        /\ pc[s] = "login"
        /\ attempt[s] = 1

\* the last alerting call of the iteration site s has finished, after which
\* the loop computed its interval and went to sleep
LastCall(s) == outbox[s][Len(outbox[s])]

\* C27: after every iteration, successful or failed, the loop sleeps for
\* calculate_next_refresh of its jar, with 0 replaced by 6 hours: every
\* sleep between iterations lasts at least 6 and at most 24 hours, and the
\* next iteration does not begin before it is over.  A site whose refresh
\* fails while it has no valid jar sleeps exactly 6 hours after an iteration
\* of at most 3 attempts, so its iterations never follow back to back.
C27_SleepBetweenIterations ==
    /\ [](\A s \in Sites :
            pc[s] = "sleep" =>
                LET slept == wake[s] - LastCall(s).at
                    interval == calculate_next_refresh(disk, DomainOf(s), LastCall(s).at)
                IN  /\ slept >= MIN_INTERVAL /\ slept <= MAX_INTERVAL
                    /\ slept = IF interval = 0 THEN MIN_INTERVAL ELSE interval
                    /\ (KindOf(LastCall(s)) = "ping_failure" /\ interval = 0) =>
                           slept = 6 * Hour)
    /\ [](\A s \in Sites : attempt[s] <= MAX_RETRIES)
    /\ [][\A s \in Sites :
            (pc[s] = "sleep" /\ pc'[s] # "sleep") =>
                /\ now >= wake[s]
                /\ attempt'[s] = 1]_vars

\* a site without a jar whose refresh failed is asleep for six hours
C27_Witness ==
    \E s \in Sites :
        /\ pc[s] = "sleep"
        /\ KindOf(LastCall(s)) = "ping_failure"
        /\ ~exists(disk, cookie_file(DomainOf(s)))
        /\ wake[s] = now + MIN_INTERVAL

\* C28: when an iteration has failed because no login module is registered
\* for the domain, the loop reports the failure (push alert, then failure
\* ping) and then sleeps MIN_INTERVAL, 6 hours, before it tries again,
\* whatever the state of the jar the site already has.
C28_NoScriptWaitsMinInterval ==
    \A s \in Sites :
        (pc[s] = "sleep" /\ DomainOf(s) \notin scripts) =>
            /\ Kinds(s) = <<"alert", "ping_failure">>
            /\ wake[s] = LastCall(s).at + MIN_INTERVAL

\* the files the loop of site s has written in the iteration it is in: the
\* temporary file once it is opened, and the jar once it is renamed onto
Written(s) ==
    IF pc[s] \in SavePCs \ {"save_open"} THEN {tmp_file(DomainOf(s))}
    ELSE IF pc[s] = "ping_ok" \/ (pc[s] = "sleep" /\ Kinds(s) = <<"ping_success">>)
    THEN {tmp_file(DomainOf(s)), cookie_file(DomainOf(s))}
    ELSE {}

\* C29: every {domain}.json has one writer, the loop of its site: no two
\* site loops write the same jar file or the same temporary file, also
\* when the configuration lists the same domain twice.
C29_OneWriterPerJar ==
    \A s \in Sites, t \in Sites :
        s # t => Written(s) \cap Written(t) = {}

\* the proxy has answered the handled request itself, with a 502
ShortCircuited == flow.response # None /\ flow.response.status_code = 502

\* the scheduler and the proxy have looked at the jar of the same domain
SameJarSeen ==
    /\ IntervalReturned
    /\ Handled
    /\ RegisteredDomain[flow.host] = ret.domain

\* C30: for the same jar at the same time the scheduler and the proxy
\* agree: calculate_next_refresh returns 0 exactly when the proxy answers a
\* request for the domain with 502 (jar missing, not loadable, or without a
\* valid cookie), and returns at least 6 hours exactly when the proxy
\* lets the request through with the jar's cookies injected.
C30_SchedulerAgreesWithProxy ==
    SameJarSeen =>
        /\ ret.value = 0 <=> ShortCircuited
        /\ ShortCircuited => flow.response.body.status \in {"missing", "error", "expired"}
        /\ ret.value >= 6 * Hour <=> (NotShortCircuited /\ "Cookie" \in DOMAIN flow.headers)
        /\ ret.value >= 6 * Hour => MustInject

\* the jar's cookies have all expired: the scheduler says refresh now, the
\* proxy answers 502 "expired"
C30_Witness ==
    /\ SameJarSeen
    /\ exists(disk, cookie_file(ret.domain))
    /\ ret.value = 0
    /\ Is502("expired", ret.domain)

\* the time at which the sleep site s is in began: start-up, or the end of
\* the iteration
SleepBegan(s) == IF pc[s] = "startup_sleep" THEN T0 ELSE LastCall(s).at

\* the expiry times of the cookies of the jar of site s that were valid at time t
ValidExpiries(s, t) ==
    IF ~exists(disk, cookie_file(DomainOf(s))) THEN {}
    ELSE LET cs == CookiesIn(disk[cookie_file(DomainOf(s))])
         IN  {cs[i].expires : i \in {j \in DOMAIN cs : Fresh(cs[j], t)}}

\* C31: for a jar whose earliest valid cookie expires at E, with lifetime
\* L = E - now > 0, calculate_next_refresh returns less than L exactly when
\* L is more than 6 hours; so a site loop that goes to sleep, at start-up
\* or after an iteration, on a jar with L > 6h is due to wake before E,
\* and on a jar with L <= 6h sleeps 6 hours, until E or past it.
C31_WakesBeforeExpiry ==
    \A s \in Sites :
        (pc[s] \in {"startup_sleep", "sleep"} /\ ValidExpiries(s, SleepBegan(s)) # {}) =>
            LET began == SleepBegan(s)
                E == Min(ValidExpiries(s, began))
                L == E - began
                interval == calculate_next_refresh(disk, DomainOf(s), began)
            IN  /\ interval < L <=> L > 6 * Hour
                /\ wake[s] = began + interval
                /\ L > 6 * Hour => wake[s] < E
                /\ L <= 6 * Hour => interval = MIN_INTERVAL /\ wake[s] >= E

\* at start-up the jar's cookie has exactly six hours left: the loop sleeps
\* the six hours, until the cookie expires
C31_Witness ==
    \E s \in Sites :
        /\ pc[s] = "startup_sleep"
        /\ ValidExpiries(s, T0) = {T0 + 6 * Hour}
        /\ wake[s] = T0 + 6 * Hour

\* the jar of site s holds no cookie that is valid at time t
NoValidCookie(s, t) ==
    /\ exists(disk, cookie_file(DomainOf(s)))
    /\ ValidExpiries(s, t) = {}

\* C32: what a login returns is saved as it is.  When perform_refresh has
\* returned, the jar is exactly the save of the session fix-up of the
\* cookies the login routine returned, also when that is an empty list or
\* only expired cookies and the jar before had valid ones; every login that
\* returns leads to the save and to a success ping, without an alert; the
\* loop then sleeps 6 hours on a jar without a valid cookie; and the proxy
\* answers a request for the domain that it loads from such a jar with
\* 502 "expired".
C32_LoginResultSavedUnchecked ==
    /\ [](\A s \in Sites :
            /\ pc[s] = "ping_ok" =>
                  /\ exists(disk, cookie_file(DomainOf(s)))
                  /\ disk[cookie_file(DomainOf(s))] = SavedFile(DomainOf(s), result[s], now)
                  /\ CookiesIn(disk[cookie_file(DomainOf(s))]) =
                         apply_session_cookie_workaround(result[s], now)
                  /\ Kinds(s) = <<>>
            /\ (pc[s] = "sleep" /\ Kinds(s) = <<"ping_success">>
                  /\ NoValidCookie(s, LastCall(s).at)) =>
                  wake[s] = LastCall(s).at + 6 * Hour)
    /\ [][\A s \in Sites :
            /\ (pc[s] \in SavePCs \cup {"ping_ok"} /\ pc'[s] # pc[s]) =>
                  /\ pc'[s] \in SavePCs \cup {"ping_ok", "sleep"}
                  /\ pc'[s] = "sleep" => Kinds(s)' = <<"ping_success">>
            /\ (pc[s] = "login" /\ pc'[s] \notin {"login", "save_open"}) =>
                  lastError'[s] = "TimeoutError"
            /\ (flow.stage = "exists" /\ flow'.stage = "requested"
                  /\ flow.domain = DomainOf(s) /\ NoValidCookie(s, now)) =>
                  flow'.response = return_502("expired", DomainOf(s))]_vars

\* the login returned nothing usable while the jar still had a valid
\* cookie: the jar now has none, the iteration counts as a success, and the
\* proxy has answered a request for the domain with 502 "expired"
C32_Witness ==
    \E s \in Sites :
        /\ pc[s] = "ping_ok"
        /\ before[s].exists
        /\ \E i \in DOMAIN CookiesIn(before[s].text) : Fresh(CookiesIn(before[s].text)[i], now)
        /\ NoValidCookie(s, now)
        /\ Handled
        /\ Is502("expired", DomainOf(s))

====
